---- MODULE Spec2Model ----
(***************************************************************************)
(* Retry-with-backoff request helpers of the connector base classes        *)
(* (DeviceAccessBase, BruceHandlerBase, UserAccessBase).  A logical call   *)
(* is one invocation of requestWithRetry / putWithRetry / postWithRetry.   *)
(* Every action is one run of the helper between two awaits of the         *)
(* JavaScript event loop: the invocation up to the first axios dispatch,   *)
(* the continuation after the dispatch settles, and the continuation       *)
(* after the backoff timer fires.                                          *)
(* On top of the helpers sit the composition functions formatUrl and       *)
(* createHeaders and the domain methods of the handlers, each of which     *)
(* composes a url and a header map and awaits a helper or axios itself.    *)
(***************************************************************************)
EXTENDS Integers, Sequences, FiniteSets, TLC

\* ------------------------------------------------------------------ bounds

\* number of distinct request URLs a caller may pass (0 stands for "no url")
NumUrls == 2

Urls == 1..NumUrls

\* call slots: logical calls that may be in flight on one connector instance
AllCalls == {1, 2}
SeqCalls == {1}

\* ------------------------------------------------------- program constants

MAX_RETRIES == 15

RETRY_DELAY == <<2, 4>>

\* UserAccessBase.requestWithRetry: const maxRetries = 5
maxRetries == 5

\* UserAccessBase.requestWithRetry: const delayMs = 1000
delayMs == 1000

Classes == {"DeviceAccessBase", "BruceHandlerBase", "UserAccessBase"}

\* the retry helpers each base class defines
Helpers(k) ==
  IF k = "UserAccessBase"
    THEN {"requestWithRetry"}
    ELSE {"requestWithRetry", "putWithRetry", "postWithRetry"}

\* ------------------------------------------------------------ the transport

\* an absent response (error.response === undefined)
NoResponse == [status |-> 0, server |-> "absent", body |-> "absent", kind |-> "absent"]

\* what the upstream server may answer: status, server header, body, and
\* whether the body is a JSON document ("json") or not decodable ("text")
OkResponses ==
  { [status |-> 200, server |-> "nginx", body |-> "ok_true", kind |-> "json"],
    [status |-> 200, server |-> "nginx", body |-> "html_page", kind |-> "text"] }

ErrResponses ==
  { [status |-> 404, server |-> "nginx", body |-> "not_found", kind |-> "text"],
    [status |-> 500, server |-> "absent", body |-> "err_obj", kind |-> "json"] }

\* response.data as axios hands it over: a JSON body is decoded to an object,
\* any other body is passed on as the raw string (axios does not reject)
AxiosData(resp) == [kind |-> resp.kind, value |-> resp.body]

NoData == [kind |-> "absent", value |-> "absent"]

\* what the text of an error message mentions
NoMessage == [status |-> 0, url |-> 0, server |-> "absent", body |-> "absent"]

Null == [name |-> "null", url |-> 0, response |-> NoResponse, message |-> NoMessage]

\* the AxiosError of a dispatch to u: config.url, response (absent for a
\* network error) and the message "Request failed with status code N"
AxiosError(u, resp) ==
  [name |-> "AxiosError", url |-> u, response |-> resp,
   message |-> [NoMessage EXCEPT !.status = resp.status]]

\* an exception of the dispatch that is not an AxiosError
TypeError == [name |-> "TypeError", url |-> 0, response |-> NoResponse, message |-> NoMessage]

isAxiosError(e) == e.name = "AxiosError"

\* the rejections axios.get/put/post(u, ...) may produce
Rejections(u, errResponses) ==
  {AxiosError(u, r) : r \in errResponses \cup {NoResponse}} \cup {TypeError}

\* ------------------------------------------------------- the helpers' code

Min(a, b) == IF a < b THEN a ELSE b

RECURSIVE Pow2(_)
\* Math.pow(2, n) for n >= 0
Pow2(n) == IF n <= 0 THEN 1 ELSE 2 * Pow2(n - 1)

\* the loop bound off by one, as with `attempt <= MAX_RETRIES`
MaxAttempts_offByOne(k) == (IF k = "UserAccessBase" THEN maxRetries ELSE MAX_RETRIES) + 1

\* the loop bound of the helper: MAX_RETRIES, or maxRetries in UserAccessBase
MaxAttempts(k) == IF k = "UserAccessBase" THEN maxRetries ELSE MAX_RETRIES

\* the backoff without its cap
BackoffMs_noCap(k, a) ==
  IF k = "UserAccessBase" THEN delayMs ELSE RETRY_DELAY[1] * Pow2(a - 1) * 1000

\* the backoff with the exponent taken after the increment is forgotten
BackoffMs_exponent(k, a) ==
  IF k = "UserAccessBase"
    THEN delayMs
    ELSE Min(RETRY_DELAY[1] * Pow2(a), RETRY_DELAY[2]) * 1000

\* the backoff with UserAccessBase on the doubling, capped delay of the others
BackoffMs_sharedPolicy(k, a) == Min(RETRY_DELAY[1] * Pow2(a - 1), RETRY_DELAY[2]) * 1000

\* the argument of setTimeout after the a-th failure, in milliseconds
BackoffMs(k, a) ==
  IF k = "UserAccessBase"
    THEN delayMs
    ELSE Min(RETRY_DELAY[1] * Pow2(a - 1), RETRY_DELAY[2]) * 1000

\* the catch block keeping the first error it saw
CatchError_first(prev, error) == IF prev.name = "null" THEN error ELSE prev

\* catch (error) { lastError = error; ... }
CatchError(prev, error) == error

\* attempt++ on a counter kept on the instance instead of in the call
BumpAttempt_shared(att, c) == [d \in DOMAIN att |-> att[d] + 1]

\* attempt++ on the local counter of call c
BumpAttempt(att, c) == [att EXCEPT ![c] = @ + 1]

\* the break taken one attempt early
Exhausted_early(k, a, error) == a >= MaxAttempts(k) - 1

\* the break also taken on a 4xx answer
Exhausted_clientError(k, a, error) ==
  a >= MaxAttempts(k) \/ error.response.status \in 400..499

\* if (attempt >= MAX_RETRIES) break;  -- the helper goes on iff this is FALSE
Exhausted(k, a, error) == a >= MaxAttempts(k)

\* `${response.data}`: an object prints as [object Object], a string as itself
templateString(data) == IF data.kind = "json" THEN "[object Object]" ELSE data.value

\* the message without the request url
errorMessage_noUrl(response, u) ==
  IF response = NoResponse
    THEN [status |-> 0, url |-> 0, server |-> "absent", body |-> "No response received"]
    ELSE [status |-> response.status,
          url    |-> 0,
          server |-> IF response.server = "absent" THEN "Unknown Server" ELSE response.server,
          body   |-> templateString(AxiosData(response))]

\* BruceHandlerBase.errorMessage(response, url)
errorMessage(response, u) ==
  IF response = NoResponse
    THEN [status |-> 0, url |-> u, server |-> "absent", body |-> "No response received"]
    ELSE [status |-> response.status,
          url    |-> u,
          server |-> IF response.server = "absent" THEN "Unknown Server" ELSE response.server,
          body   |-> templateString(AxiosData(response))]

\* new Error(message)
Error(msg) == [name |-> "Error", url |-> 0, response |-> NoResponse, message |-> msg]

\* what the helper throws after the loop
Surface(k, err, u) ==
  IF k = "BruceHandlerBase" /\ isAxiosError(err)
    THEN Error(errorMessage(err.response, u))
    ELSE err

\* ------------------------------------------- the PUT and POST helpers' code

\* postWithRetry: while (attempt < MAX_RETRIES) ... if (attempt >= MAX_RETRIES) break
postMaxAttempts(k) == MAX_RETRIES

\* postWithRetry sleeping the cap from the first failure on
postBackoffMs_alwaysCap(k, a) == RETRY_DELAY[2] * 1000

\* postWithRetry: Math.min(RETRY_DELAY[0] * Math.pow(2, attempt - 1), RETRY_DELAY[1]) * 1000
postBackoffMs(k, a) == Min(RETRY_DELAY[1] * Pow2(a - 1), RETRY_DELAY[2]) * 1000

\* postWithRetry: what is thrown after the loop
postSurface(k, err, u) ==
  IF k = "BruceHandlerBase" /\ isAxiosError(err)
    THEN Error(errorMessage(err.response, u))
    ELSE err

\* putWithRetry: while (attempt < MAX_RETRIES) ... if (attempt >= MAX_RETRIES) break
putMaxAttempts(k) == MAX_RETRIES

\* putWithRetry with a backoff that doubles without the cap
putBackoffMs_noCap(k, a) == RETRY_DELAY[1] * Pow2(a - 1) * 1000

\* putWithRetry: Math.min(RETRY_DELAY[0] * Math.pow(2, attempt - 1), RETRY_DELAY[1]) * 1000
putBackoffMs(k, a) == Min(RETRY_DELAY[1] * Pow2(a - 1), RETRY_DELAY[2]) * 1000

\* putWithRetry: what is thrown after the loop
putSurface(k, err, u) ==
  IF k = "BruceHandlerBase" /\ isAxiosError(err)
    THEN Error(errorMessage(err.response, u))
    ELSE err

\* the loop bound of helper h of class k
HelperMaxAttempts(k, h) ==
  CASE h = "postWithRetry" -> postMaxAttempts(k)
    [] h = "putWithRetry"  -> putMaxAttempts(k)
    [] OTHER               -> MaxAttempts(k)

\* the helper without the break: it sleeps after every failure and leaves the
\* loop by the while condition
HelperExhausted_noBreak(k, h, a, error) == FALSE

\* the break test of helper h after its attempt-th failure
HelperExhausted(k, h, a, error) ==
  CASE h = "postWithRetry" -> a >= postMaxAttempts(k)
    [] h = "putWithRetry"  -> a >= putMaxAttempts(k)
    [] OTHER               -> Exhausted(k, a, error)

\* the backoff of helper h after its a-th failure, in milliseconds
HelperBackoffMs(k, h, a) ==
  CASE h = "postWithRetry" -> postBackoffMs(k, a)
    [] h = "putWithRetry"  -> putBackoffMs(k, a)
    [] OTHER               -> BackoffMs(k, a)

\* what helper h throws after its loop
HelperSurface(k, h, err, u) ==
  CASE h = "postWithRetry" -> postSurface(k, err, u)
    [] h = "putWithRetry"  -> putSurface(k, err, u)
    [] OTHER               -> Surface(k, err, u)

\* ------------------------------------------------ url and header composition

\* A string that takes part in url composition is a sequence of tokens: a
\* placeholder such as "{id}", a delimiter "/" or "?", or a run of other
\* characters.

\* Protocol.HTTP / Protocol.HTTPS
HTTP == "http"

HTTPS == "https"

\* the constructor arguments of a connector instance
Hosts == {"api.example.com"}

AccessTokens == {"tok"}

Timezones == {"UTC"}

Contexts == [dataUrl : Hosts, accessToken : AccessTokens, onPrem : BOOLEAN, tz : Timezones]

\* String.prototype.replace(pattern, replacement) with a string pattern: the
\* first occurrence of the pattern is replaced, a string without it is returned
\* as it is
Replace(str, pattern, replacement) ==
  IF \E i \in DOMAIN str : str[i] = pattern
    THEN LET i == CHOOSE j \in DOMAIN str :
                    /\ str[j] = pattern
                    /\ \A l \in 1..(j - 1) : str[l] # pattern
         IN SubSeq(str, 1, i - 1) \o replacement \o SubSeq(str, i + 1, Len(str))
    ELSE str

\* encodeURIComponent: the delimiters and the braces are percent-encoded
encodeURIComponent(str) ==
  [i \in DOMAIN str |->
     CASE str[i] = "/" -> "%2F"
       [] str[i] = "?" -> "%3F"
       [] str[i] = "{sensor}" -> "%7Bsensor%7D"
       [] OTHER -> str[i]]

\* the optional onPrem argument of formatUrl: omitted, true or false
OnPremArgs == {"omitted", "true", "false"}

\* formatUrl with `||` in the place of `??`: an explicit false is ignored
EffectiveOnPrem_or(onPrem, instanceOnPrem) == onPrem = "true" \/ instanceOnPrem

\* onPrem ?? this.onPrem
EffectiveOnPrem(onPrem, instanceOnPrem) ==
  IF onPrem = "omitted" THEN instanceOnPrem ELSE onPrem = "true"

\* the host placeholder a base class replaces
HostPlaceholder(k) == IF k = "BruceHandlerBase" THEN "{data_url}" ELSE "{backend_url}"

\* formatUrl(template, onPrem) of base class k on an instance with fields c
formatUrl(k, c, template, onPrem) ==
  LET protocol == IF EffectiveOnPrem(onPrem, c.onPrem) THEN HTTP ELSE HTTPS
  IN Replace(Replace(template, "{protocol}", <<protocol>>), HostPlaceholder(k), <<c.dataUrl>>)

\* header maps: a key has a string value, the value undefined, or no entry
HeaderKeys == {"Authorization", "Content-Type", "origin", "organisation"}

NoEntry == "no entry"

undefined == "undefined"

NoHeaders == [h \in HeaderKeys |-> NoEntry]

\* { ...base, ...extra }: every own key of extra, undefined ones included,
\* takes the place of the key of base
Spread(base, extra) ==
  [h \in HeaderKeys |-> IF extra[h] # NoEntry THEN extra[h] ELSE base[h]]

\* `Bearer ${accessToken}`
Bearer(accessToken) == "Bearer " \o accessToken

\* createHeaders with the default written after the caller's entries
createHeaders_defaultLast(k, c, extraHeaders) ==
  LET merged == Spread(extraHeaders, [NoHeaders EXCEPT !["Authorization"] = Bearer(c.accessToken)])
  IN IF k = "UserAccessBase"
       THEN [h \in HeaderKeys |-> IF merged[h] = undefined THEN NoEntry ELSE merged[h]]
       ELSE merged

\* createHeaders(extraHeaders) of DeviceAccessBase and of UserAccessBase, which
\* filters the undefined values out; BruceHandlerBase defines none
createHeaders(k, c, extraHeaders) ==
  LET merged == Spread([NoHeaders EXCEPT !["Authorization"] = Bearer(c.accessToken)], extraHeaders)
  IN IF k = "UserAccessBase"
       THEN [h \in HeaderKeys |-> IF merged[h] = undefined THEN NoEntry ELSE merged[h]]
       ELSE merged

\* the inline headers written without the Authorization entry
inlineHeaders_noAuthorization(c, extraHeaders) ==
  Spread([NoHeaders EXCEPT !["Content-Type"] = "application/json"], extraHeaders)

\* the headers a handler writes inline: Authorization, Content-Type, ...extraHeaders
inlineHeaders(c, extraHeaders) ==
  Spread([NoHeaders EXCEPT !["Authorization"] = Bearer(c.accessToken),
                           !["Content-Type"] = "application/json"],
         extraHeaders)

\* login: { organisation, origin, ...extraHeaders }
loginHeaders(extraHeaders) ==
  Spread([NoHeaders EXCEPT !["organisation"] = "https://iosense.io",
                           !["origin"] = "https://iosense.io"],
         extraHeaders)

\* ------------------------------------------------------- the url templates

\* '{protocol}://{backend_url}' and '{protocol}://{data_url}', the head of every template
BackendHead == <<"{protocol}", "://", "{backend_url}">>

DataHead == <<"{protocol}", "://", "{data_url}">>

USER_LOGIN_URL ==
  BackendHead \o <<"/", "api", "/", "login">>

USER_DETAILS_URL ==
  BackendHead \o <<"/", "api", "/", "account", "/", "getUserDetails">>

USER_QUOTA_URL ==
  BackendHead \o <<"/", "api", "/", "account", "/", "profile", "/", "quota">>

USER_ENTITIES_URL ==
  BackendHead \o <<"/", "api", "/", "account", "/", "getUserEntities">>

USER_ENTITY_FETCH_URL ==
  BackendHead \o <<"/", "api", "/", "account", "/", "userEntity", "/",
      "fetch">>

DEVICE_ALL_PAGINATED_URL ==
  BackendHead \o <<"/", "api", "/", "account", "/", "devices", "/", "{skip}",
      "/", "{limit}">>

DEVICE_DATA_URL ==
  BackendHead \o <<"/", "api", "/", "account", "/", "devices", "/",
      "getDeviceData", "/", "{id}">>

DEVICE_BY_DEVID_URL ==
  BackendHead \o <<"/", "api", "/", "account", "/", "device", "/",
      "getDevice", "/", "{devID}">>

DEVICE_LAST_DATA_POINTS_URL ==
  BackendHead \o <<"/", "api", "/", "account", "/", "deviceData", "/",
      "lastDataPoints">>

DEVICE_LAST_DP_URL ==
  BackendHead \o <<"/", "api", "/", "account", "/", "deviceData", "/",
      "lastDP">>

DEVICE_DATA_BY_TIME_RANGE_URL ==
  BackendHead \o <<"/", "api", "/", "account", "/", "deviceData", "/",
      "getData", "/", "{devID}", "/", "{sensor}", "/", "{sTime}", "/",
      "{eTime}", "/", "{downSample}">>

DEVICE_DATA_BY_TIME_RANGE_CALIBRATION_URL ==
  BackendHead \o <<"/", "api", "/", "account", "/", "deviceData", "/",
      "getDataCalibration", "/", "{devID}", "/", "{sensor}", "/", "{sTime}",
      "/", "{eTime}", "/", "{calibration}">>

DEVICE_LIMITED_DATA_URL ==
  BackendHead \o <<"/", "api", "/", "account", "/", "deviceData", "/",
      "getLimitedData", "/", "{devID}", "/", "{sensor}", "/", "{lim}">>

DEVICE_DATA_BY_STET_URL ==
  BackendHead \o <<"/", "api", "/", "account", "/", "deviceData", "/",
      "getDataByStEt", "/", "{devID}", "/", "{sTime}", "/", "{eTime}">>

DEVICE_DATA_COUNT_URL ==
  BackendHead \o <<"/", "api", "/", "account", "/", "deviceData", "/",
      "count", "/", "{devID}", "/", "{sensor}", "/", "{sTime}", "/",
      "{eTime}">>

DEVICE_MONTHLY_CONSUMPTION_URL ==
  BackendHead \o <<"/", "api", "/", "account", "/", "deviceData", "/",
      "getMonthlyConsumption">>

DEVICE_LOAD_ENTITIES_GEN_URL ==
  BackendHead \o <<"/", "api", "/", "account", "/", "load-entities-gen">>

DEVICE_LOAD_ENTITIES_GEN_BY_ID_URL ==
  BackendHead \o <<"/", "api", "/", "account", "/", "load-entities-gen", "/",
      "{id}">>

DEVICE_LOAD_ENTITIES_GEN_PAGINATED_URL ==
  BackendHead \o <<"/", "api", "/", "account", "/", "load-entities-gen", "/",
      "{page}", "/", "{limit}">>

BRUCE_USER_INSIGHT_FETCH_PAGINATED_URL ==
  DataHead \o <<"/", "api", "/", "account", "/", "bruce", "/", "userInsight",
      "/", "fetch", "/", "paginated">>

BRUCE_GET_SOURCE_INSIGHT_URL ==
  DataHead \o <<"/", "api", "/", "account", "/", "bruce", "/", "userInsight",
      "/", "fetch", "/", "getSourceInsight", "/", "{insightID}">>

BRUCE_INSIGHT_RESULT_FETCH_PAGINATED_URL ==
  DataHead \o <<"/", "api", "/", "account", "/", "bruce", "/",
      "insightResult", "/", "fetch", "/", "paginated", "/", "{insightID}">>

BRUCE_UPDATE_SINGLE_USER_INSIGHT_URL ==
  DataHead \o <<"/", "api", "/", "account", "/", "bruce", "/", "userInsight",
      "/", "update", "/", "singleUserInsight">>

BRUCE_ADD_USER_INSIGHT_URL ==
  DataHead \o <<"/", "api", "/", "account", "/", "bruce", "/", "userInsight",
      "/", "add">>

\* ------------------------------------------------------ the domain methods

\* A domain method, as its handler is written: the template and the
\* placeholders it replaces, in the order of its .replace() calls, with what
\* each is replaced by (the caller's id, the sensor, a number printed with
\* toString()); whether the replacements are made on the template before
\* formatUrl or on its result; whether the value goes through
\* encodeURIComponent; how the headers are built; what carries the request;
\* and what the handler does with an error.

getAllDevicesPaginated ==
  [name |-> "getAllDevicesPaginated", klass |-> "DeviceAccessBase",
   template |-> DEVICE_ALL_PAGINATED_URL,
   subst |-> <<<<"{skip}", "number">>, <<"{limit}", "number">>>>,
   substFirst |-> FALSE, encode |-> FALSE,
   headers |-> "createHeadersJson", transport |-> "axios.put", onError |-> "null",
   time |-> "none"]

getDeviceData ==
  [name |-> "getDeviceData", klass |-> "DeviceAccessBase",
   template |-> DEVICE_DATA_URL,
   subst |-> <<<<"{id}", "id">>>>,
   substFirst |-> FALSE, encode |-> FALSE,
   headers |-> "createHeaders", transport |-> "requestWithRetry", onError |-> "null",
   time |-> "none"]

getDeviceByDevID ==
  [name |-> "getDeviceByDevID", klass |-> "DeviceAccessBase",
   template |-> DEVICE_BY_DEVID_URL,
   subst |-> <<<<"{devID}", "id">>>>,
   substFirst |-> FALSE, encode |-> FALSE,
   headers |-> "createHeaders", transport |-> "requestWithRetry", onError |-> "null",
   time |-> "none"]

getLastDataPoints ==
  [name |-> "getLastDataPoints", klass |-> "DeviceAccessBase",
   template |-> DEVICE_LAST_DATA_POINTS_URL,
   subst |-> <<>>,
   substFirst |-> FALSE, encode |-> FALSE,
   headers |-> "createHeaders", transport |-> "requestWithRetry", onError |-> "null",
   time |-> "none"]

getLastDP ==
  [name |-> "getLastDP", klass |-> "DeviceAccessBase",
   template |-> DEVICE_LAST_DP_URL,
   subst |-> <<>>,
   substFirst |-> FALSE, encode |-> FALSE,
   headers |-> "createHeadersJson", transport |-> "axios.put", onError |-> "null",
   time |-> "none"]

getLimitedData ==
  [name |-> "getLimitedData", klass |-> "DeviceAccessBase",
   template |-> DEVICE_LIMITED_DATA_URL,
   subst |-> <<<<"{devID}", "id">>, <<"{sensor}", "sensor">>, <<"{lim}", "number">>>>,
   substFirst |-> FALSE, encode |-> FALSE,
   headers |-> "createHeaders", transport |-> "requestWithRetry", onError |-> "null",
   time |-> "none"]

getDataCount ==
  [name |-> "getDataCount", klass |-> "DeviceAccessBase",
   template |-> DEVICE_DATA_COUNT_URL,
   subst |-> <<<<"{devID}", "id">>, <<"{sensor}", "sensor">>, <<"{sTime}", "number">>, <<"{eTime}", "number">>>>,
   substFirst |-> FALSE, encode |-> FALSE,
   headers |-> "createHeaders", transport |-> "requestWithRetry", onError |-> "null",
   time |-> "beforeTry"]

getDataByTimeRange ==
  [name |-> "getDataByTimeRange", klass |-> "DeviceAccessBase",
   template |-> DEVICE_DATA_BY_TIME_RANGE_URL,
   subst |-> <<<<"{devID}", "id">>, <<"{sensor}", "sensor">>, <<"{sTime}", "number">>, <<"{eTime}", "number">>, <<"{downSample}", "number">>>>,
   substFirst |-> TRUE, encode |-> FALSE,
   headers |-> "inline", transport |-> "requestWithRetry", onError |-> "null",
   time |-> "inTry"]

getDataByTimeRangeWithCalibration ==
  [name |-> "getDataByTimeRangeWithCalibration", klass |-> "DeviceAccessBase",
   template |-> DEVICE_DATA_BY_TIME_RANGE_CALIBRATION_URL,
   subst |-> <<<<"{devID}", "id">>, <<"{sensor}", "sensor">>, <<"{sTime}", "number">>, <<"{eTime}", "number">>, <<"{calibration}", "number">>>>,
   substFirst |-> TRUE, encode |-> FALSE,
   headers |-> "inline", transport |-> "requestWithRetry", onError |-> "null",
   time |-> "inTry"]

getDataByStEt ==
  [name |-> "getDataByStEt", klass |-> "DeviceAccessBase",
   template |-> DEVICE_DATA_BY_STET_URL,
   subst |-> <<<<"{devID}", "id">>, <<"{sTime}", "number">>, <<"{eTime}", "number">>>>,
   substFirst |-> TRUE, encode |-> FALSE,
   headers |-> "inline", transport |-> "requestWithRetry", onError |-> "null",
   time |-> "inTry"]

loadEntitiesGen ==
  [name |-> "loadEntitiesGen", klass |-> "DeviceAccessBase",
   template |-> DEVICE_LOAD_ENTITIES_GEN_URL,
   subst |-> <<>>,
   substFirst |-> FALSE, encode |-> FALSE,
   headers |-> "createHeaders", transport |-> "axios.get", onError |-> "null",
   time |-> "none"]

loadEntitiesGenById ==
  [name |-> "loadEntitiesGenById", klass |-> "DeviceAccessBase",
   template |-> DEVICE_LOAD_ENTITIES_GEN_BY_ID_URL,
   subst |-> <<<<"{id}", "id">>>>,
   substFirst |-> FALSE, encode |-> FALSE,
   headers |-> "createHeaders", transport |-> "axios.get", onError |-> "null",
   time |-> "none"]

loadEntitiesGenPaginated ==
  [name |-> "loadEntitiesGenPaginated", klass |-> "DeviceAccessBase",
   template |-> DEVICE_LOAD_ENTITIES_GEN_PAGINATED_URL,
   subst |-> <<<<"{page}", "number">>, <<"{limit}", "number">>>>,
   substFirst |-> FALSE, encode |-> FALSE,
   headers |-> "createHeadersJson", transport |-> "axios.put", onError |-> "null",
   time |-> "none"]

getMonthlyConsumption ==
  [name |-> "getMonthlyConsumption", klass |-> "DeviceAccessBase",
   template |-> DEVICE_MONTHLY_CONSUMPTION_URL,
   subst |-> <<>>,
   substFirst |-> FALSE, encode |-> FALSE,
   headers |-> "createHeadersJson", transport |-> "axios.put", onError |-> "null",
   time |-> "none"]

getUserDetails ==
  [name |-> "getUserDetails", klass |-> "UserAccessBase",
   template |-> USER_DETAILS_URL,
   subst |-> <<>>,
   substFirst |-> FALSE, encode |-> FALSE,
   headers |-> "createHeaders", transport |-> "requestWithRetry", onError |-> "null",
   time |-> "none"]

getUserQuota ==
  [name |-> "getUserQuota", klass |-> "UserAccessBase",
   template |-> USER_QUOTA_URL,
   subst |-> <<>>,
   substFirst |-> FALSE, encode |-> FALSE,
   headers |-> "createHeaders", transport |-> "requestWithRetry", onError |-> "null",
   time |-> "none"]

getUserEntities ==
  [name |-> "getUserEntities", klass |-> "UserAccessBase",
   template |-> USER_ENTITIES_URL,
   subst |-> <<>>,
   substFirst |-> FALSE, encode |-> FALSE,
   headers |-> "createHeaders", transport |-> "requestWithRetry", onError |-> "null",
   time |-> "none"]

getUserEntityFetch ==
  [name |-> "getUserEntityFetch", klass |-> "UserAccessBase",
   template |-> USER_ENTITY_FETCH_URL,
   subst |-> <<>>,
   substFirst |-> FALSE, encode |-> FALSE,
   headers |-> "createHeaders", transport |-> "requestWithRetry", onError |-> "null",
   time |-> "none"]

fetchUserInsights ==
  [name |-> "fetchUserInsights", klass |-> "BruceHandlerBase",
   template |-> BRUCE_USER_INSIGHT_FETCH_PAGINATED_URL,
   subst |-> <<>>,
   substFirst |-> FALSE, encode |-> FALSE,
   headers |-> "inline", transport |-> "putWithRetry", onError |-> "throw",
   time |-> "none"]

fetchSourceInsight ==
  [name |-> "fetchSourceInsight", klass |-> "BruceHandlerBase",
   template |-> BRUCE_GET_SOURCE_INSIGHT_URL,
   subst |-> <<<<"{insightID}", "id">>>>,
   substFirst |-> FALSE, encode |-> TRUE,
   headers |-> "inline", transport |-> "putWithRetry", onError |-> "throw",
   time |-> "none"]

fetchInsightResult ==
  [name |-> "fetchInsightResult", klass |-> "BruceHandlerBase",
   template |-> BRUCE_INSIGHT_RESULT_FETCH_PAGINATED_URL,
   subst |-> <<<<"{insightID}", "id">>>>,
   substFirst |-> FALSE, encode |-> TRUE,
   headers |-> "inline", transport |-> "putWithRetry", onError |-> "throw",
   time |-> "none"]

updateSingleUserInsight ==
  [name |-> "updateSingleUserInsight", klass |-> "BruceHandlerBase",
   template |-> BRUCE_UPDATE_SINGLE_USER_INSIGHT_URL,
   subst |-> <<>>,
   substFirst |-> FALSE, encode |-> FALSE,
   headers |-> "inline", transport |-> "putWithRetry", onError |-> "throw",
   time |-> "none"]

addUserInsight ==
  [name |-> "addUserInsight", klass |-> "BruceHandlerBase",
   template |-> BRUCE_ADD_USER_INSIGHT_URL,
   subst |-> <<>>,
   substFirst |-> FALSE, encode |-> FALSE,
   headers |-> "inline", transport |-> "postWithRetry", onError |-> "throw",
   time |-> "none"]

Methods ==
  {getAllDevicesPaginated, getDeviceData, getDeviceByDevID,
   getLastDataPoints, getLastDP, getLimitedData,
   getDataCount, getDataByTimeRange, getDataByTimeRangeWithCalibration,
   getDataByStEt, loadEntitiesGen, loadEntitiesGenById,
   loadEntitiesGenPaginated, getMonthlyConsumption, getUserDetails,
   getUserQuota, getUserEntities, getUserEntityFetch,
   fetchUserInsights, fetchSourceInsight, fetchInsightResult,
   updateSingleUserInsight, addUserInsight}

\* the value of a string argument the caller left out
Missing == <<"(argument left out)">>

\* the values a caller passes for an id: plain, with a path delimiter, with a
\* query delimiter, and the text of a placeholder
PathValues == {<<"42">>, <<"a", "/", "b">>, <<"a", "?", "b">>, <<"{sensor}">>}

\* sensor = 'arduino', the default of the options
Sensor == <<"arduino">>

\* a number argument printed by toString()
Printed == <<"1">>

\* the string a value is converted to where a string is wanted
JsString(v) == IF v = Missing THEN <<"undefined">> ELSE v

\* the replacement a handler passes to .replace() for a placeholder
SubstValue(kind, a, encode) ==
  CASE kind = "id"     -> IF encode THEN encodeURIComponent(JsString(a.id)) ELSE JsString(a.id)
    [] kind = "sensor" -> Sensor
    [] OTHER           -> Printed

RECURSIVE replacePlaceholders(_, _, _, _)
\* the chain of .replace(placeholder, value) calls of a handler
replacePlaceholders(str, subst, a, encode) ==
  IF subst = << >>
    THEN str
    ELSE replacePlaceholders(
           Replace(str, Head(subst)[1], SubstValue(Head(subst)[2], a, encode)),
           Tail(subst), a, encode)

\* the url a domain method hands to its transport
composeUrl(m, c, a) ==
  IF m.substFirst
    THEN formatUrl(m.klass, c, replacePlaceholders(m.template, m.subst, a, m.encode), a.onPrem)
    ELSE replacePlaceholders(formatUrl(m.klass, c, m.template, a.onPrem), m.subst, a, m.encode)

\* the headers a domain method hands to its transport
buildHeaders(m, c, extraHeaders) ==
  CASE m.headers = "createHeaders" ->
         createHeaders(m.klass, c, extraHeaders)
    [] m.headers = "createHeadersJson" ->
         createHeaders(m.klass, c,
           Spread([NoHeaders EXCEPT !["Content-Type"] = "application/json"], extraHeaders))
    [] OTHER ->
         inlineHeaders(c, extraHeaders)

\* the extraHeaders a caller passes: Authorization and origin, each left out,
\* given a value, or present with the value undefined
ExtraHeaders ==
  {[NoHeaders EXCEPT !["Authorization"] = a, !["origin"] = o] :
     a \in {NoEntry, "Basic abc", undefined}, o \in {NoEntry, "app", undefined}}

\* the startTime a caller passes: a date string that parses, one that does
\* not, and a number of seconds (ten digits)
TimeArgs == {"ISO string", "unparseable string", "seconds number"}

\* DeviceAccessBase.timeToUnix(time) throws: a number is returned as it is, a
\* string goes through Date.parse
timeToUnixThrows(time) == time = "unparseable string"

\* DeviceDataHandler.timeToUnix(time) throws: a number must have more than ten
\* digits, a string must give a valid Date
handlerTimeToUnixThrows(time) == time \in {"unparseable string", "seconds number"}

\* the time conversion of handler m throws on the arguments a
TimeThrows(m, a) ==
  \/ m.time = "inTry" /\ timeToUnixThrows(a.time)
  \/ m.time = "beforeTry" /\ handlerTimeToUnixThrows(a.time)

\* new Error(`Invalid time format: ${time}`)
InvalidTime == Error([NoMessage EXCEPT !.body = "Invalid time"])

\* the arguments a domain method may be called with
HasId(m) == \E i \in DOMAIN m.subst : m.subst[i][2] = "id"

Args(m) ==
  [id           : IF HasId(m) THEN PathValues \cup {Missing} ELSE {Missing},
   time         : IF m.time = "none" THEN {"ISO string"} ELSE TimeArgs,
   onPrem       : IF m.klass = "BruceHandlerBase" THEN OnPremArgs ELSE {"omitted"},
   extraHeaders : ExtraHeaders]

\* login(options): dataUrl = 'connector.iosense.io', onPrem = false by default
LoginHost == "connector.iosense.io"

LoginArgs ==
  [id : {Missing}, time : {"ISO string"}, onPrem : OnPremArgs, extraHeaders : ExtraHeaders]

loginUrl(a) ==
  Replace(Replace(USER_LOGIN_URL, "{protocol}", <<IF a.onPrem = "true" THEN HTTP ELSE HTTPS>>),
          "{backend_url}", <<LoginHost>>)

\* the requests that are not carried by a retry helper
DirectVerbs == {"axios.get", "axios.put", "axios.post"}

\* what a handler makes of an error: `return null`, or the error goes on to the caller
NoOutcome == [kind |-> "none", data |-> NoData, error |-> Null]

Returned(data) == [kind |-> "returned", data |-> data, error |-> Null]

Caught(onError, err) ==
  IF onError = "null"
    THEN [kind |-> "null", data |-> NoData, error |-> Null]
    ELSE [kind |-> "thrown", data |-> NoData, error |-> err]

\* ------------------------------------------- storage and messaging: values

\* the operations started on one MongoCRUD instance
MongoCalls == {1, 2}

\* an operation slot nothing runs in
MongoIdle == [op |-> "none", pc |-> "idle", handle |-> "none"]

\* the keys of the redis server
Keys == {"k1", "k2"}

\* the property names of the objects stored
Fields == {"a", "b"}

\* an object without properties; 0 stands for a property the object lacks
NoFields == [f \in Fields |-> 0]

\* the JavaScript values null, a number, an object
JsNull == [type |-> "null", n |-> 0, fields |-> NoFields]

JsNumber(n) == [type |-> "number", n |-> n, fields |-> NoFields]

JsObject(fields) == [type |-> "object", n |-> 0, fields |-> fields]

\* no value under the key: GET replies nil
Absent == [present |-> FALSE, json |-> JsNull]

\* the operations started on one RedisCRUD instance
RedisCalls == {1, 2}

RedisIdle == [op |-> "none", pc |-> "idle", key |-> "none", value |-> JsNull,
              existing |-> JsNull, merged |-> JsNull]

\* the operations started on one RMQHandler instance
RmqCalls == {1, 2}

RmqIdle == [op |-> "none", pc |-> "idle", connection |-> "undefined",
            channel |-> "undefined", err |-> FALSE]

\* no message received yet
NoTopic == << >>

\* the longest topic, in levels
MaxLevels == 3

\* the most subscribe calls made on one client
MaxSubscriptions == 2

\* the names of topic levels
LevelNames == {"a", "b"}

\* 'l1/l2/...': a topic string, as its levels with the separators between them
RECURSIVE JoinLevels(_)
JoinLevels(levels) ==
  IF Len(levels) <= 1 THEN levels
  ELSE <<Head(levels), "/">> \o JoinLevels(Tail(levels))

\* the topics messages are published on
Topics ==
  { JoinLevels(l) : l \in UNION { [1..n -> LevelNames] : n \in 1..MaxLevels } }

\* the topic filters of the MQTT protocol: '+' for a level, '#' as the last level
TopicFilters ==
  { JoinLevels(l) :
      l \in { f \in UNION { [1..n -> LevelNames \cup {"+", "#"}] : n \in 1..MaxLevels } :
                \A i \in 1..(Len(f) - 1) : f[i] # "#" } }

\* ------------------------------------------------------------------- state

VARIABLES
  klass,      \* the base class of the connector instance
  pc,         \* per call: Idle, Attempting, Sleeping, Succeeded, Failed
  helper,     \* per call: the helper that was invoked
  url,        \* per call: the url argument
  attempt,    \* per call: the local `attempt`
  lastError,  \* per call: the local `lastError`
  timer,      \* per call: the pending setTimeout delay in ms, 0 when none
  inflight,   \* per call: dispatches issued and not yet settled
  dispatches, \* per call: dispatches issued since the call began
  sleeps,     \* per call: the delays (ms) slept since the call began
  wire,       \* per call: what the transport delivered last (response or error)
  result,     \* per call: the value the helper returned
  thrown,     \* per call: the error the helper threw
  ctx,        \* the instance fields dataUrl, accessToken, onPrem, tz
  call,       \* the composition operation or domain method last called, with its arguments
  built,      \* the url and the headers that operation composed
  sent,       \* the url and the headers of every dispatch of the domain method, in order
  outcome,    \* what the domain method gave its caller
  client,     \* MongoCRUD: the field `client`
  db,         \* MongoCRUD: the field `db`
  collection, \* MongoCRUD: the field `collection`
  mongoOps,   \* MongoCRUD: per started operation, its name and position
  store,      \* the redis server: per key, the value stored
  redisOps,   \* RedisCRUD: per started operation, its arguments, locals and position
  connections,\* the amqp broker: the connections open
  channels,   \* the amqp broker: the channels open
  rmqOps,     \* RMQHandler: per started operation, its locals and position
  mqttClient, \* MqttConnector: the field `client`
  isConnected,\* MqttConnector: the field `isConnected`
  listeners,  \* the mqtt client: the 'message' listeners, by the topic each closes over
  message,    \* the mqtt client: the topic of the message received last, with the listeners as they are
  invoked     \* the listeners whose callback ran for that message

connectorVars ==
  <<klass, pc, helper, url, attempt, lastError, timer, inflight,
    dispatches, sleeps, wire, result, thrown, ctx, call, built, sent, outcome>>

mongoVars == <<client, db, collection, mongoOps>>

redisVars == <<store, redisOps>>

rmqVars == <<connections, channels, rmqOps>>

mqttVars == <<mqttClient, isConnected, listeners, message, invoked>>

\* the state of the storage and messaging classes
pubsubVars == <<mongoVars, redisVars, rmqVars, mqttVars>>

vars == <<connectorVars, pubsubVars>>

\* the state of the composition and domain-method layer
methodVars == <<ctx, call, built, sent, outcome>>

NoCall ==
  [op |-> "none", name |-> "none", template |-> << >>,
   args |-> [id |-> Missing, time |-> "ISO string", onPrem |-> "omitted",
             extraHeaders |-> NoHeaders]]

NoBuilt == [url |-> << >>, headers |-> NoHeaders]

NoWire == [ok |-> FALSE, response |-> NoResponse, error |-> Null]

Init ==
  /\ klass \in Classes
  /\ pc = [c \in AllCalls |-> "Idle"]
  /\ helper = [c \in AllCalls |-> "none"]
  /\ url = [c \in AllCalls |-> 0]
  /\ attempt = [c \in AllCalls |-> 0]
  /\ lastError = [c \in AllCalls |-> Null]
  /\ timer = [c \in AllCalls |-> 0]
  /\ inflight = [c \in AllCalls |-> 0]
  /\ dispatches = [c \in AllCalls |-> 0]
  /\ sleeps = [c \in AllCalls |-> << >>]
  /\ wire = [c \in AllCalls |-> NoWire]
  /\ result = [c \in AllCalls |-> NoData]
  /\ thrown = [c \in AllCalls |-> Null]
  /\ ctx \in Contexts
  /\ call = NoCall
  /\ built = NoBuilt
  /\ sent = << >>
  /\ outcome = NoOutcome
  /\ client = "null"
  /\ db = "null"
  /\ collection = "null"
  /\ mongoOps = [p \in MongoCalls |-> MongoIdle]
  /\ store = [k \in Keys |-> Absent]
  /\ redisOps = [p \in RedisCalls |-> RedisIdle]
  /\ connections = {}
  /\ channels = {}
  /\ rmqOps = [p \in RmqCalls |-> RmqIdle]
  /\ mqttClient = "null"
  /\ isConnected = FALSE
  /\ listeners = {}
  /\ message = NoTopic
  /\ invoked = {}

\* A caller invokes helper h with url u: attempt = 0, lastError = null, the
\* loop condition holds and the first axios dispatch is issued and awaited.
Invoke(c, h, u) ==
  /\ pc[c] \in {"Idle", "Succeeded", "Failed"}
  /\ h \in Helpers(klass)
  /\ pc' = [pc EXCEPT ![c] = "Attempting"]
  /\ helper' = [helper EXCEPT ![c] = h]
  /\ url' = [url EXCEPT ![c] = u]
  /\ attempt' = [attempt EXCEPT ![c] = 0]
  /\ lastError' = [lastError EXCEPT ![c] = Null]
  /\ timer' = [timer EXCEPT ![c] = 0]
  /\ inflight' = [inflight EXCEPT ![c] = 1]
  /\ dispatches' = [dispatches EXCEPT ![c] = 1]
  /\ sleeps' = [sleeps EXCEPT ![c] = << >>]
  /\ wire' = [wire EXCEPT ![c] = NoWire]
  /\ result' = [result EXCEPT ![c] = NoData]
  /\ thrown' = [thrown EXCEPT ![c] = Null]
  /\ UNCHANGED klass

\* the dispatch resolves and the helper stays in its loop without dispatching
Resolve_noReturn(c, resp) ==
  /\ pc[c] = "Attempting"
  /\ inflight[c] > 0
  /\ wire' = [wire EXCEPT ![c] = [ok |-> TRUE, response |-> resp, error |-> Null]]
  /\ inflight' = [inflight EXCEPT ![c] = @ - 1]
  /\ result' = [result EXCEPT ![c] = AxiosData(resp)]
  /\ UNCHANGED <<klass, pc, helper, url, attempt, lastError, timer, dispatches, sleeps, thrown>>

\* The awaited dispatch resolves (any 2xx): return response.data.
Resolve(c, resp) ==
  /\ pc[c] = "Attempting"
  /\ inflight[c] > 0
  /\ wire' = [wire EXCEPT ![c] = [ok |-> TRUE, response |-> resp, error |-> Null]]
  /\ inflight' = [inflight EXCEPT ![c] = @ - 1]
  /\ result' = [result EXCEPT ![c] = AxiosData(resp)]
  /\ pc' = [pc EXCEPT ![c] = "Succeeded"]
  /\ UNCHANGED <<klass, helper, url, attempt, lastError, timer, dispatches, sleeps, thrown>>

\* the catch block with the backoff promise not awaited: the timer is set and
\* the next dispatch is issued at once
Reject_noAwait(c, e) ==
  /\ pc[c] = "Attempting"
  /\ inflight[c] > 0
  /\ wire' = [wire EXCEPT ![c] = [ok |-> FALSE, response |-> e.response, error |-> e]]
  /\ lastError' = [lastError EXCEPT ![c] = CatchError(@, e)]
  /\ attempt' = BumpAttempt(attempt, c)
  /\ IF HelperExhausted(klass, helper[c], attempt'[c], e)
       THEN /\ pc' = [pc EXCEPT ![c] = "Failed"]
            /\ inflight' = [inflight EXCEPT ![c] = @ - 1]
            /\ thrown' = [thrown EXCEPT ![c] = HelperSurface(klass, helper[c], lastError'[c], url[c])]
            /\ UNCHANGED <<timer, sleeps, dispatches>>
       ELSE /\ pc' = [pc EXCEPT ![c] = "Attempting"]
            /\ inflight' = inflight
            /\ dispatches' = [dispatches EXCEPT ![c] = @ + 1]
            /\ timer' = [timer EXCEPT ![c] = HelperBackoffMs(klass, helper[c], attempt'[c])]
            /\ sleeps' = [sleeps EXCEPT ![c] = Append(@, HelperBackoffMs(klass, helper[c], attempt'[c]))]
            /\ UNCHANGED thrown
  /\ UNCHANGED <<klass, helper, url, result>>

\* The awaited dispatch rejects with e: the catch block runs; either the
\* backoff timer is set, or the loop is left and the helper throws.
Reject(c, e) ==
  /\ pc[c] = "Attempting"
  /\ inflight[c] > 0
  /\ wire' = [wire EXCEPT ![c] = [ok |-> FALSE, response |-> e.response, error |-> e]]
  /\ inflight' = [inflight EXCEPT ![c] = @ - 1]
  /\ lastError' = [lastError EXCEPT ![c] = CatchError(@, e)]
  /\ attempt' = BumpAttempt(attempt, c)
  /\ IF HelperExhausted(klass, helper[c], attempt'[c], e)
       THEN /\ pc' = [pc EXCEPT ![c] = "Failed"]
            /\ thrown' = [thrown EXCEPT ![c] = HelperSurface(klass, helper[c], lastError'[c], url[c])]
            /\ UNCHANGED <<timer, sleeps>>
       ELSE /\ pc' = [pc EXCEPT ![c] = "Sleeping"]
            /\ timer' = [timer EXCEPT ![c] = HelperBackoffMs(klass, helper[c], attempt'[c])]
            /\ sleeps' = [sleeps EXCEPT ![c] = Append(@, HelperBackoffMs(klass, helper[c], attempt'[c]))]
            /\ UNCHANGED thrown
  /\ UNCHANGED <<klass, helper, url, dispatches, result>>

\* The backoff timer of call c fires: the loop condition is tested again and,
\* when it holds, the next dispatch is issued and awaited.
TimerFires(c) ==
  /\ pc[c] = "Sleeping"
  /\ timer' = [timer EXCEPT ![c] = 0]
  /\ IF attempt[c] < HelperMaxAttempts(klass, helper[c])
       THEN /\ pc' = [pc EXCEPT ![c] = "Attempting"]
            /\ inflight' = [inflight EXCEPT ![c] = @ + 1]
            /\ dispatches' = [dispatches EXCEPT ![c] = @ + 1]
            /\ UNCHANGED thrown
       ELSE /\ pc' = [pc EXCEPT ![c] = "Failed"]
            /\ thrown' = [thrown EXCEPT ![c] = HelperSurface(klass, helper[c], lastError[c], url[c])]
            /\ UNCHANGED <<inflight, dispatches>>
  /\ UNCHANGED <<klass, helper, url, attempt, lastError, sleeps, wire, result>>

\* one logical call at a time on the instance, every transport outcome
Next ==
  \E c \in SeqCalls :
    \/ \E h \in Helpers(klass), u \in Urls : Invoke(c, h, u) /\ UNCHANGED <<methodVars, pubsubVars>>
    \/ \E resp \in OkResponses : Resolve(c, resp) /\ UNCHANGED <<methodVars, pubsubVars>>
    \/ \E e \in Rejections(url[c], ErrResponses) : Reject(c, e) /\ UNCHANGED <<methodVars, pubsubVars>>
    \/ TimerFires(c) /\ UNCHANGED <<methodVars, pubsubVars>>

Spec == Init /\ [][Next]_vars

\* the dispatch in flight settles
Settle ==
  \E c \in SeqCalls :
    \/ \E resp \in OkResponses : Resolve(c, resp) /\ UNCHANGED <<methodVars, pubsubVars>>
    \/ \E e \in Rejections(url[c], ErrResponses) : Reject(c, e) /\ UNCHANGED <<methodVars, pubsubVars>>

\* the pending timer fires
Elapse == \E c \in SeqCalls : TimerFires(c) /\ UNCHANGED <<methodVars, pubsubVars>>

\* every dispatch settles and every setTimeout fires
SpecLive == Init /\ [][Next]_vars /\ WF_vars(Settle) /\ WF_vars(Elapse)

\* two logical calls in flight on the same instance; the transport answers
\* one url with one body, a 404 or no response at all
ConcUrls == {1}

ConcOk == {r \in OkResponses : r.kind = "json"}

ConcErr == {r \in ErrResponses : r.status = 404}

ConcRejections(u) == {AxiosError(u, r) : r \in ConcErr \cup {NoResponse}}

NextConc ==
  \E c \in AllCalls :
    \/ \E h \in Helpers(klass), u \in ConcUrls : Invoke(c, h, u) /\ UNCHANGED <<methodVars, pubsubVars>>
    \/ \E resp \in ConcOk : Resolve(c, resp) /\ UNCHANGED <<methodVars, pubsubVars>>
    \/ \E e \in ConcRejections(url[c]) : Reject(c, e) /\ UNCHANGED <<methodVars, pubsubVars>>
    \/ TimerFires(c) /\ UNCHANGED <<methodVars, pubsubVars>>

SpecConc == Init /\ [][NextConc]_vars

\* ----------------------------------- composition and domain-method actions

\* the template of the documentation's example, '{protocol}://{backend_url}/x/{id}'
ExampleTemplate == BackendHead \o <<"/", "x", "/", "{id}">>

\* the domain methods of the handlers built on base class k
MethodsOf(k) == {m \in Methods : m.klass = k}

\* the templates a caller passes to formatUrl of base class k
TemplatesOf(k) == {m.template : m \in MethodsOf(k)} \cup {ExampleTemplate}

MethodOf(name) == CHOOSE m \in Methods : m.name = name

\* login letting the error of its dispatch go on to the caller
OnError_loginThrows == IF call.op = "login" THEN "throw" ELSE MethodOf(call.name).onError

\* what the handler of the running call does with an error
OnError == IF call.op = "login" THEN "null" ELSE MethodOf(call.name).onError

\* formatUrl keeping the protocol choice on the instance
FieldsAfterFormatUrl_stored(c, onPrem) ==
  [c EXCEPT !.onPrem = EffectiveOnPrem(onPrem, c.onPrem)]

\* the instance fields after formatUrl(template, onPrem): it assigns none
FieldsAfterFormatUrl(c, onPrem) == c

\* the transport answers a domain method with one body or with a 404
MethodOk == ConcOk

MethodRejections(u) == {AxiosError(u, r) : r \in ConcErr}

\* a dispatch a handler issued itself is answered 404 or gets no answer
DirectRejections(u) == {AxiosError(u, r) : r \in ConcErr \cup {NoResponse}}

\* no call is running and the caller holds no outcome it has yet to take
Ready == pc[1] = "Idle" /\ outcome.kind = "none"

\* A caller calls formatUrl(t, o) on the instance.
CallFormatUrl(t, o) ==
  /\ Ready
  /\ call' = [op |-> "formatUrl", name |-> "formatUrl", template |-> t,
              args |-> [id |-> Missing, time |-> "ISO string", onPrem |-> o,
                        extraHeaders |-> NoHeaders]]
  /\ built' = [url |-> formatUrl(klass, ctx, t, o), headers |-> NoHeaders]
  /\ ctx' = FieldsAfterFormatUrl(ctx, o)
  /\ UNCHANGED <<klass, pc, helper, url, attempt, lastError, timer, inflight,
                 dispatches, sleeps, wire, result, thrown, sent, outcome>>

\* A caller calls createHeaders(e) on the instance.
CallCreateHeaders(e) ==
  /\ Ready
  /\ klass # "BruceHandlerBase"
  /\ call' = [op |-> "createHeaders", name |-> "createHeaders", template |-> << >>,
              args |-> [id |-> Missing, time |-> "ISO string", onPrem |-> "omitted",
                        extraHeaders |-> e]]
  /\ built' = [url |-> << >>, headers |-> createHeaders(klass, ctx, e)]
  /\ UNCHANGED <<klass, pc, helper, url, attempt, lastError, timer, inflight,
                 dispatches, sleeps, wire, result, thrown, ctx, sent, outcome>>

\* axios.get / axios.put / axios.post called by a handler itself: one dispatch
Dispatch(c, verb, u) ==
  /\ verb \in DirectVerbs
  /\ pc' = [pc EXCEPT ![c] = "Attempting"]
  /\ helper' = [helper EXCEPT ![c] = verb]
  /\ url' = [url EXCEPT ![c] = u]
  /\ attempt' = [attempt EXCEPT ![c] = 0]
  /\ lastError' = [lastError EXCEPT ![c] = Null]
  /\ timer' = [timer EXCEPT ![c] = 0]
  /\ inflight' = [inflight EXCEPT ![c] = 1]
  /\ dispatches' = [dispatches EXCEPT ![c] = 1]
  /\ sleeps' = [sleeps EXCEPT ![c] = << >>]
  /\ wire' = [wire EXCEPT ![c] = NoWire]
  /\ result' = [result EXCEPT ![c] = NoData]
  /\ thrown' = [thrown EXCEPT ![c] = Null]
  /\ UNCHANGED klass

\* A caller calls domain method m with arguments a: the handler composes the
\* url and the headers and awaits its transport.
CallMethod(m, a) ==
  /\ Ready
  /\ m.klass = klass
  /\ ~TimeThrows(m, a)
  /\ LET u == composeUrl(m, ctx, a)
         h == buildHeaders(m, ctx, a.extraHeaders)
     IN /\ call' = [op |-> "method", name |-> m.name, template |-> m.template, args |-> a]
        /\ built' = [url |-> u, headers |-> h]
        /\ sent' = <<[url |-> u, headers |-> h]>>
        /\ IF m.transport \in DirectVerbs
             THEN Dispatch(1, m.transport, u)
             ELSE Invoke(1, m.transport, u)
  /\ outcome' = [kind |-> "pending", data |-> NoData, error |-> Null]
  /\ ctx' = FieldsAfterFormatUrl(ctx, a.onPrem)

\* A caller calls domain method m with a time its conversion rejects: inside
\* the handler's try the catch block answers, before it the error leaves the
\* handler; nothing is composed or dispatched.
CallMethodInvalidTime(m, a) ==
  /\ Ready
  /\ m.klass = klass
  /\ TimeThrows(m, a)
  /\ call' = [op |-> "method", name |-> m.name, template |-> m.template, args |-> a]
  /\ built' = NoBuilt
  /\ sent' = << >>
  /\ outcome' = IF m.time = "inTry"
                  THEN Caught(m.onError, InvalidTime)
                  ELSE [kind |-> "thrown", data |-> NoData, error |-> InvalidTime]
  /\ UNCHANGED <<klass, pc, helper, url, attempt, lastError, timer, inflight,
                 dispatches, sleeps, wire, result, thrown, ctx>>

\* A caller calls login(options): one axios.post, no connector instance involved.
Login(a) ==
  /\ Ready
  /\ call' = [op |-> "login", name |-> "login", template |-> USER_LOGIN_URL, args |-> a]
  /\ built' = [url |-> loginUrl(a), headers |-> loginHeaders(a.extraHeaders)]
  /\ sent' = <<[url |-> loginUrl(a), headers |-> loginHeaders(a.extraHeaders)]>>
  /\ Dispatch(1, "axios.post", loginUrl(a))
  /\ outcome' = [kind |-> "pending", data |-> NoData, error |-> Null]
  /\ UNCHANGED ctx

\* The awaited dispatch resolves: the helper or the handler returns response.data.
MethodResolve(resp) ==
  /\ call.op \in {"method", "login"}
  /\ Resolve(1, resp)
  /\ outcome' = Returned(result'[1])
  /\ UNCHANGED <<ctx, call, built, sent>>

\* The dispatch of a retry helper rejects; when the helper gives up, its error
\* reaches the handler.
HelperReject(e) ==
  /\ call.op = "method"
  /\ helper[1] \notin DirectVerbs
  /\ Reject(1, e)
  /\ outcome' = IF pc'[1] = "Failed" THEN Caught(OnError, thrown'[1]) ELSE outcome
  /\ UNCHANGED <<ctx, call, built, sent>>

\* The dispatch a handler issued itself rejects: the error reaches the handler.
DirectReject(e) ==
  /\ call.op \in {"method", "login"}
  /\ helper[1] \in DirectVerbs
  /\ pc[1] = "Attempting"
  /\ inflight[1] > 0
  /\ wire' = [wire EXCEPT ![1] = [ok |-> FALSE, response |-> e.response, error |-> e]]
  /\ inflight' = [inflight EXCEPT ![1] = @ - 1]
  /\ pc' = [pc EXCEPT ![1] = "Failed"]
  /\ thrown' = [thrown EXCEPT ![1] = e]
  /\ outcome' = Caught(OnError, e)
  /\ UNCHANGED <<klass, helper, url, attempt, lastError, timer, dispatches, sleeps,
                 result, ctx, call, built, sent>>

\* The backoff timer of the helper fires: the same url and headers go out again.
BackoffElapsed ==
  /\ call.op = "method"
  /\ TimerFires(1)
  /\ sent' = IF dispatches'[1] > dispatches[1]
               THEN Append(sent, [url |-> url[1], headers |-> built.headers])
               ELSE sent
  /\ outcome' = IF pc'[1] = "Failed" THEN Caught(OnError, thrown'[1]) ELSE outcome
  /\ UNCHANGED <<ctx, call, built>>

\* The caller has the outcome; the locals of the call are gone.
Return ==
  /\ outcome.kind \in {"returned", "null", "thrown"}
  /\ pc' = [pc EXCEPT ![1] = "Idle"]
  /\ helper' = [helper EXCEPT ![1] = "none"]
  /\ url' = [url EXCEPT ![1] = 0]
  /\ attempt' = [attempt EXCEPT ![1] = 0]
  /\ lastError' = [lastError EXCEPT ![1] = Null]
  /\ timer' = [timer EXCEPT ![1] = 0]
  /\ inflight' = [inflight EXCEPT ![1] = 0]
  /\ dispatches' = [dispatches EXCEPT ![1] = 0]
  /\ sleeps' = [sleeps EXCEPT ![1] = << >>]
  /\ wire' = [wire EXCEPT ![1] = NoWire]
  /\ result' = [result EXCEPT ![1] = NoData]
  /\ thrown' = [thrown EXCEPT ![1] = Null]
  /\ call' = NoCall
  /\ built' = NoBuilt
  /\ sent' = << >>
  /\ outcome' = NoOutcome
  /\ UNCHANGED <<klass, ctx>>

\* one connector instance: composition calls, then domain method calls one at
\* a time, each to its end
NextMethods ==
  \/ \E t \in TemplatesOf(klass), o \in OnPremArgs : CallFormatUrl(t, o) /\ UNCHANGED pubsubVars
  \/ \E e \in ExtraHeaders : CallCreateHeaders(e) /\ UNCHANGED pubsubVars
  \/ \E m \in MethodsOf(klass) : \E a \in Args(m) : CallMethod(m, a) /\ UNCHANGED pubsubVars
  \/ \E m \in MethodsOf(klass) : \E a \in Args(m) : CallMethodInvalidTime(m, a) /\ UNCHANGED pubsubVars
  \/ \E a \in LoginArgs : Login(a) /\ UNCHANGED pubsubVars
  \/ \E resp \in MethodOk : MethodResolve(resp) /\ UNCHANGED pubsubVars
  \/ \E e \in MethodRejections(url[1]) : HelperReject(e) /\ UNCHANGED pubsubVars
  \/ \E e \in DirectRejections(url[1]) : DirectReject(e) /\ UNCHANGED pubsubVars
  \/ DirectReject(TypeError) /\ UNCHANGED pubsubVars
  \/ BackoffElapsed /\ UNCHANGED pubsubVars
  \/ Return /\ UNCHANGED pubsubVars

SpecMethods == Init /\ [][NextMethods]_vars

\* ------------------------------------------------------------- MongoCRUD

\* the connector instance takes no part in the storage and messaging classes
InitPubsub == Init /\ klass = "DeviceAccessBase" /\ ctx.onPrem = FALSE

\* create, read, update, delete
MongoCrudOps == {"create", "read", "update", "delete"}

\* if (this.client) return;
connectReuses(c) == c # "null"

\* create / read / update / delete is called: connect() runs up to its first
\* await. With a client it returns at once and the operation awaits the
\* resolved promise; without one it assigns this.client = new MongoClient(uri)
\* and awaits client.connect().
MongoStart(p, op) ==
  /\ mongoOps[p].pc = "idle"
  /\ IF connectReuses(client)
       THEN /\ mongoOps' = [mongoOps EXCEPT ![p] = [op |-> op, pc |-> "awaitConnect", handle |-> "none"]]
            /\ UNCHANGED client
       ELSE /\ client' = "MongoClient"
            /\ mongoOps' = [mongoOps EXCEPT ![p] = [op |-> op, pc |-> "clientConnect", handle |-> "none"]]
  /\ UNCHANGED <<db, collection>>

\* client.connect() resolves: this.db = this.client.db(dbName) and
\* this.collection = this.db.collection(name); a client set to null meanwhile
\* makes this.client.db throw, which connect rethrows
MongoConnected(p) ==
  /\ mongoOps[p].pc = "clientConnect"
  /\ IF client = "null"
       THEN /\ mongoOps' = [mongoOps EXCEPT ![p].pc = "thrown"]
            /\ UNCHANGED <<db, collection>>
       ELSE /\ db' = "Db"
            /\ collection' = "Collection"
            /\ mongoOps' = [mongoOps EXCEPT ![p].pc = "awaitConnect"]
  /\ UNCHANGED client

\* client.connect() rejects: the catch block logs and rethrows, the operation
\* rejects; this.client keeps the client assigned before the await
MongoConnectFails(p) ==
  /\ mongoOps[p].pc = "clientConnect"
  /\ mongoOps' = [mongoOps EXCEPT ![p].pc = "thrown"]
  /\ UNCHANGED <<client, db, collection>>

\* the operation resumes past `await this.connect()` and evaluates
\* this.collection!.insertOne(...): on null the TypeError is caught and rethrown
MongoProceed(p) ==
  /\ mongoOps[p].pc = "awaitConnect"
  /\ mongoOps' = [mongoOps EXCEPT ![p].handle = collection,
                                  ![p].pc = IF collection = "null" THEN "thrown" ELSE "command"]
  /\ UNCHANGED <<client, db, collection>>

\* the command sent to the server settles
MongoCommandSettles(p, ok) ==
  /\ mongoOps[p].pc = "command"
  /\ mongoOps' = [mongoOps EXCEPT ![p].pc = IF ok THEN "returned" ELSE "thrown"]
  /\ UNCHANGED <<client, db, collection>>

\* disconnect() is called: without a client it returns, with one it awaits
\* client.close()
MongoDisconnect(p) ==
  /\ mongoOps[p].pc = "idle"
  /\ mongoOps' = [mongoOps EXCEPT ![p] = [op |-> "disconnect", handle |-> "none",
                                          pc |-> IF client = "null" THEN "returned" ELSE "closing"]]
  /\ UNCHANGED <<client, db, collection>>

\* client.close() settles: resolved, the three fields are set to null;
\* rejected, the error is rethrown and the fields stay
MongoClosed(p, ok) ==
  /\ mongoOps[p].pc = "closing"
  /\ IF ok
       THEN /\ client' = "null"
            /\ db' = "null"
            /\ collection' = "null"
            /\ mongoOps' = [mongoOps EXCEPT ![p].pc = "returned"]
       ELSE /\ mongoOps' = [mongoOps EXCEPT ![p].pc = "thrown"]
            /\ UNCHANGED <<client, db, collection>>

\* the caller has seen the operation settle
MongoReturn(p) ==
  /\ mongoOps[p].pc \in {"returned", "thrown"}
  /\ mongoOps' = [mongoOps EXCEPT ![p] = MongoIdle]
  /\ UNCHANGED <<client, db, collection>>

NextMongo ==
  \E p \in MongoCalls :
    \/ \E op \in MongoCrudOps : MongoStart(p, op) /\ UNCHANGED <<connectorVars, redisVars, rmqVars, mqttVars>>
    \/ MongoConnected(p) /\ UNCHANGED <<connectorVars, redisVars, rmqVars, mqttVars>>
    \/ MongoConnectFails(p) /\ UNCHANGED <<connectorVars, redisVars, rmqVars, mqttVars>>
    \/ MongoProceed(p) /\ UNCHANGED <<connectorVars, redisVars, rmqVars, mqttVars>>
    \/ \E ok \in BOOLEAN : MongoCommandSettles(p, ok) /\ UNCHANGED <<connectorVars, redisVars, rmqVars, mqttVars>>
    \/ MongoDisconnect(p) /\ UNCHANGED <<connectorVars, redisVars, rmqVars, mqttVars>>
    \/ \E ok \in BOOLEAN : MongoClosed(p, ok) /\ UNCHANGED <<connectorVars, redisVars, rmqVars, mqttVars>>
    \/ MongoReturn(p) /\ UNCHANGED <<connectorVars, redisVars, rmqVars, mqttVars>>

SpecMongo == InitPubsub /\ [][NextMongo]_vars

\* ------------------------------------------------------------- RedisCRUD

\* JSON.stringify(value): the text stored under the key
Stringify(value) == [present |-> TRUE, json |-> value]

\* JSON.parse(val)
Parse(val) == val.json

\* get: return val ? JSON.parse(val) : null
get(val) == IF val.present THEN Parse(val) ELSE JsNull

\* !existing || typeof existing !== 'object'  (typeof null is 'object', and
\* null and 0 are falsy)
NotUpdatable(existing) ==
  \/ existing.type = "null"
  \/ existing.type = "number" /\ existing.n = 0
  \/ existing.type # "object"

\* { ...existing, ...value }
Merge(existing, value) ==
  JsObject([f \in Fields |->
              IF value.fields[f] # 0 THEN value.fields[f] ELSE existing.fields[f]])

\* the values an application has stored before the updates begin
SeedValues ==
  { JsNull, JsNumber(0), JsNumber(5), JsObject(NoFields),
    JsObject([f \in Fields |-> IF f = "a" THEN 3 ELSE 0]) }

\* set(key, value), from call to reply, before any update is started
RedisSet(k, v) ==
  /\ \A p \in RedisCalls : redisOps[p].pc = "idle"
  /\ store' = [store EXCEPT ![k] = Stringify(v)]
  /\ UNCHANGED redisOps

\* update(key, { [f]: p }) is called by caller p: get(key) sends GET and awaits
UpdateStart(p, k, f) ==
  /\ redisOps[p].pc = "idle"
  /\ redisOps' = [redisOps EXCEPT ![p] =
       [op |-> "update", pc |-> "get", key |-> k,
        value |-> JsObject([g \in Fields |-> IF g = f THEN p ELSE 0]),
        existing |-> JsNull, merged |-> JsNull]]
  /\ UNCHANGED store

\* GET replies: existing is parsed; a missing or non-object value throws, an
\* object is merged with the partial and set(key, merged) sends SET and awaits
UpdateGetReplies(p) ==
  /\ redisOps[p].pc = "get"
  /\ LET existing == get(store[redisOps[p].key])
     IN IF NotUpdatable(existing)
          THEN redisOps' = [redisOps EXCEPT ![p].existing = existing, ![p].pc = "thrown"]
          ELSE redisOps' = [redisOps EXCEPT ![p].existing = existing,
                                            ![p].merged = Merge(existing, redisOps[p].value),
                                            ![p].pc = "set"]
  /\ UNCHANGED store

\* GET fails: get logs and rethrows, update logs and rethrows
UpdateGetFails(p) ==
  /\ redisOps[p].pc = "get"
  /\ redisOps' = [redisOps EXCEPT ![p].pc = "thrown"]
  /\ UNCHANGED store

\* SET is executed by the server and replies OK: update returns
UpdateSetReplies(p) ==
  /\ redisOps[p].pc = "set"
  /\ store' = [store EXCEPT ![redisOps[p].key] = Stringify(redisOps[p].merged)]
  /\ redisOps' = [redisOps EXCEPT ![p].pc = "returned"]

NextRedis ==
  \/ \E k \in Keys, v \in SeedValues : RedisSet(k, v) /\ UNCHANGED <<connectorVars, mongoVars, rmqVars, mqttVars>>
  \/ \E p \in RedisCalls, k \in Keys, f \in Fields : UpdateStart(p, k, f) /\ UNCHANGED <<connectorVars, mongoVars, rmqVars, mqttVars>>
  \/ \E p \in RedisCalls : UpdateGetReplies(p) /\ UNCHANGED <<connectorVars, mongoVars, rmqVars, mqttVars>>
  \/ \E p \in RedisCalls : UpdateGetFails(p) /\ UNCHANGED <<connectorVars, mongoVars, rmqVars, mqttVars>>
  \/ \E p \in RedisCalls : UpdateSetReplies(p) /\ UNCHANGED <<connectorVars, mongoVars, rmqVars, mqttVars>>

SpecRedis == InitPubsub /\ [][NextRedis]_vars

\* ------------------------------------------------------------ RMQHandler

RmqOps == {"publishSingle", "publishMultiple", "subscribe"}

\* publishSingle, publishMultiple or subscribe is called: connect() builds the
\* url and awaits amqp.connect(url)
RmqStart(p, op) ==
  /\ rmqOps[p].pc = "idle"
  /\ rmqOps' = [rmqOps EXCEPT ![p] = [RmqIdle EXCEPT !.op = op, !.pc = "connect"]]
  /\ UNCHANGED <<connections, channels>>

\* amqp.connect settles: resolved, the connection is open and connect() awaits
\* connection.createChannel(); rejected, connect() throws, the catch block
\* rethrows and the finally block finds channel and connection undefined
RmqConnectSettles(p, ok) ==
  /\ rmqOps[p].pc = "connect"
  /\ IF ok
       THEN /\ connections' = connections \cup {p}
            /\ rmqOps' = [rmqOps EXCEPT ![p].pc = "createChannel"]
       ELSE /\ rmqOps' = [rmqOps EXCEPT ![p].pc = "thrown", ![p].err = TRUE]
            /\ UNCHANGED connections
  /\ UNCHANGED channels

\* createChannel settles: resolved, connect() returns { connection, channel },
\* the locals are assigned and channel.assertQueue is awaited; rejected,
\* connect() throws with the connection in its own local only, the catch block
\* rethrows and the finally block finds channel and connection undefined
RmqCreateChannelSettles(p, ok) ==
  /\ rmqOps[p].pc = "createChannel"
  /\ IF ok
       THEN /\ channels' = channels \cup {p}
            /\ rmqOps' = [rmqOps EXCEPT ![p].connection = "connection",
                                        ![p].channel = "channel",
                                        ![p].pc = "assertQueue"]
       ELSE /\ rmqOps' = [rmqOps EXCEPT ![p].pc = "thrown", ![p].err = TRUE]
            /\ UNCHANGED channels
  /\ UNCHANGED connections

\* the finally block: if (channel) await channel.close().catch(() => {}), then
\* if (connection) await connection.close().catch(() => {})
Finally(op) ==
  IF op.channel # "undefined" THEN "closeChannel"
  ELSE IF op.connection # "undefined" THEN "closeConnection"
  ELSE IF op.err THEN "thrown" ELSE "returned"

\* assertQueue settles: resolved, a publisher calls sendToQueue and enters the
\* finally block, a subscriber awaits channel.consume; rejected, the catch
\* block keeps the error for after the finally block
RmqAssertQueueSettles(p, ok) ==
  /\ rmqOps[p].pc = "assertQueue"
  /\ rmqOps' = [rmqOps EXCEPT
       ![p].err = ~ok,
       ![p].pc = IF ok /\ rmqOps[p].op = "subscribe" THEN "consume" ELSE Finally(rmqOps[p])]
  /\ UNCHANGED <<connections, channels>>

\* channel.consume settles: resolved, subscribe awaits its one-second timer
RmqConsumeSettles(p, ok) ==
  /\ rmqOps[p].pc = "consume"
  /\ rmqOps' = [rmqOps EXCEPT ![p].err = ~ok,
                              ![p].pc = IF ok THEN "timer" ELSE Finally(rmqOps[p])]
  /\ UNCHANGED <<connections, channels>>

\* setTimeout(resolve, 1000) fires: subscribe enters the finally block
RmqTimerFires(p) ==
  /\ rmqOps[p].pc = "timer"
  /\ rmqOps' = [rmqOps EXCEPT ![p].pc = Finally(rmqOps[p])]
  /\ UNCHANGED <<connections, channels>>

\* channel.close() settles; it rejects when the channel is closed already, and
\* the rejection is swallowed
RmqChannelClosed(p, ok) ==
  /\ rmqOps[p].pc = "closeChannel"
  /\ channels' = channels \ {p}
  /\ rmqOps' = [rmqOps EXCEPT ![p].pc = "closeConnection"]
  /\ UNCHANGED connections

\* connection.close() settles likewise; the operation returns, or rethrows the
\* error kept by the catch block
RmqConnectionClosed(p, ok) ==
  /\ rmqOps[p].pc = "closeConnection"
  /\ connections' = connections \ {p}
  /\ rmqOps' = [rmqOps EXCEPT ![p].pc = IF rmqOps[p].err THEN "thrown" ELSE "returned"]
  /\ UNCHANGED channels

NextRmq ==
  \E p \in RmqCalls :
    \/ \E op \in RmqOps : RmqStart(p, op) /\ UNCHANGED <<connectorVars, mongoVars, redisVars, mqttVars>>
    \/ \E ok \in BOOLEAN : RmqConnectSettles(p, ok) /\ UNCHANGED <<connectorVars, mongoVars, redisVars, mqttVars>>
    \/ \E ok \in BOOLEAN : RmqCreateChannelSettles(p, ok) /\ UNCHANGED <<connectorVars, mongoVars, redisVars, mqttVars>>
    \/ \E ok \in BOOLEAN : RmqAssertQueueSettles(p, ok) /\ UNCHANGED <<connectorVars, mongoVars, redisVars, mqttVars>>
    \/ \E ok \in BOOLEAN : RmqConsumeSettles(p, ok) /\ UNCHANGED <<connectorVars, mongoVars, redisVars, mqttVars>>
    \/ RmqTimerFires(p) /\ UNCHANGED <<connectorVars, mongoVars, redisVars, mqttVars>>
    \/ \E ok \in BOOLEAN : RmqChannelClosed(p, ok) /\ UNCHANGED <<connectorVars, mongoVars, redisVars, mqttVars>>
    \/ \E ok \in BOOLEAN : RmqConnectionClosed(p, ok) /\ UNCHANGED <<connectorVars, mongoVars, redisVars, mqttVars>>

SpecRmq == InitPubsub /\ [][NextRmq]_vars

\* ----------------------------------------------------------- MqttConnector

\* topic.split('/')
split(topic) == [i \in 1..((Len(topic) + 1) \div 2) |-> topic[2 * i - 1]]

RECURSIVE topicMatchesFrom(_, _, _)
\* the for loop of topicMatches from index i on
topicMatchesFrom(subParts, recParts, i) ==
  IF i > Len(subParts) THEN TRUE
  ELSE IF subParts[i] # "+" /\ subParts[i] # "#" /\ subParts[i] # recParts[i] THEN FALSE
  ELSE IF subParts[i] = "#" THEN TRUE
  ELSE topicMatchesFrom(subParts, recParts, i + 1)

\* topicMatches(subscribed, received)
topicMatches(subscribed, received) ==
  LET subParts == split(subscribed)
      recParts == split(received)
  IN IF Len(subParts) # Len(recParts) THEN FALSE
     ELSE topicMatchesFrom(subParts, recParts, 1)

\* connect(): this.client = mqtt.connect(url, options), a new client without
\* listeners of subscribe
MqttConnect ==
  /\ mqttClient' = "MqttClient"
  /\ listeners' = {}
  /\ message' = NoTopic
  /\ invoked' = {}
  /\ UNCHANGED isConnected

\* the client emits 'connect'
MqttOnConnect ==
  /\ mqttClient # "null"
  /\ ~isConnected
  /\ isConnected' = TRUE
  /\ UNCHANGED <<mqttClient, listeners, message, invoked>>

\* the client emits 'close', or close() has ended it
MqttOnClose ==
  /\ mqttClient # "null"
  /\ isConnected
  /\ isConnected' = FALSE
  /\ UNCHANGED <<mqttClient, listeners, message, invoked>>

\* subscribe(topic, callback) on a connected client: the subscription is sent
\* and a 'message' listener closing over topic is added
MqttSubscribe(topic) ==
  /\ mqttClient # "null" /\ isConnected
  /\ Cardinality(listeners) < MaxSubscriptions
  /\ listeners' = listeners \cup {topic}
  /\ message' = NoTopic
  /\ invoked' = {}
  /\ UNCHANGED <<mqttClient, isConnected>>

\* the client emits 'message' for receivedTopic: every listener runs, and calls
\* its callback if receivedTopic === topic || this.topicMatches(topic, receivedTopic)
MqttOnMessage(receivedTopic) ==
  /\ mqttClient # "null" /\ isConnected
  /\ message' = receivedTopic
  /\ invoked' = {topic \in listeners :
                   topic = receivedTopic \/ topicMatches(topic, receivedTopic)}
  /\ UNCHANGED <<mqttClient, isConnected, listeners>>

NextMqtt ==
  \/ MqttConnect /\ UNCHANGED <<connectorVars, mongoVars, redisVars, rmqVars>>
  \/ MqttOnConnect /\ UNCHANGED <<connectorVars, mongoVars, redisVars, rmqVars>>
  \/ MqttOnClose /\ UNCHANGED <<connectorVars, mongoVars, redisVars, rmqVars>>
  \/ \E topic \in TopicFilters : MqttSubscribe(topic) /\ UNCHANGED <<connectorVars, mongoVars, redisVars, rmqVars>>
  \/ \E receivedTopic \in Topics : MqttOnMessage(receivedTopic) /\ UNCHANGED <<connectorVars, mongoVars, redisVars, rmqVars>>

SpecMqtt == InitPubsub /\ [][NextMqtt]_vars

\* ------------------------------------------------- the retry policy claimed

\* maxAttempts of the policy a helper of class k runs under
PolicyAttempts(k) == IF k = "UserAccessBase" THEN maxRetries ELSE MAX_RETRIES

\* baseDelay and maxDelay of that policy, in seconds
PolicyBase(k) == IF k = "UserAccessBase" THEN delayMs \div 1000 ELSE RETRY_DELAY[1]

PolicyCap(k) == IF k = "UserAccessBase" THEN delayMs \div 1000 ELSE RETRY_DELAY[2]

\* delay(n) = min(baseDelay * 2^(n-1), maxDelay), in seconds
PolicyDelay(k, n) ==
  IF PolicyBase(k) * (2 ^ (n - 1)) < PolicyCap(k)
    THEN PolicyBase(k) * (2 ^ (n - 1))
    ELSE PolicyCap(k)

Terminal(c) == pc[c] \in {"Succeeded", "Failed"}

\* ---------------------------------------------------------------- claims

\* C1: a logical call never performs more than MAX_RETRIES (15) network
\* dispatches, whatever the transport answers.
C1_AtMostMaxAttempts ==
  \A c \in AllCalls : dispatches[c] <= MAX_RETRIES /\ dispatches[c] <= PolicyAttempts(klass)

\* a call through a MAX_RETRIES helper has issued its 15th dispatch
C1_Witness ==
  \E c \in AllCalls : klass # "UserAccessBase" /\ dispatches[c] = MAX_RETRIES /\ pc[c] = "Attempting"

\* C2: a call that ended after the transport failed on every attempt made
\* exactly maxAttempts dispatches, is Failed, surfaces an error and returns no
\* value; a call is Succeeded only after a dispatch that resolved.
C2_ExhaustedFails ==
  \A c \in AllCalls :
    /\ (Terminal(c) /\ ~wire[c].ok) =>
         /\ pc[c] = "Failed"
         /\ dispatches[c] = PolicyAttempts(klass)
         /\ thrown[c] # Null
         /\ result[c] = NoData
    /\ pc[c] = "Succeeded" => (wire[c].ok /\ thrown[c] = Null)
    /\ pc[c] = "Failed" => ~wire[c].ok

\* a call has failed after every dispatch was rejected
C2_Witness ==
  \E c \in AllCalls : pc[c] = "Failed" /\ dispatches[c] = MAX_RETRIES /\ thrown[c] # Null

\* C3: a call that succeeds after n failures (1 <= n <= maxAttempts-1) made
\* n+1 dispatches, returns the body of the successful dispatch and slept
\* delay(k) after the k-th failure for every k <= n.
C3_FailThenSucceed ==
  \A c \in AllCalls :
    pc[c] = "Succeeded" =>
      /\ attempt[c] <= PolicyAttempts(klass) - 1
      /\ dispatches[c] = attempt[c] + 1
      /\ result[c].value = wire[c].response.body
      /\ Len(sleeps[c]) = attempt[c]
      /\ \A k \in 1..attempt[c] : sleeps[c][k] = 1000 * PolicyDelay(klass, k)

\* success on the last permitted attempt, after maxAttempts-1 failures
C3_Witness ==
  \E c \in AllCalls :
    /\ pc[c] = "Succeeded"
    /\ klass = "DeviceAccessBase"
    /\ attempt[c] = MAX_RETRIES - 1
    /\ result[c].value = "ok_true"

\* C4: the backoff after the n-th failure is min(baseDelay * 2^(n-1), maxDelay)
\* seconds; with baseDelay 2 and maxDelay 4 that is 2, 4, 4, 4, ...
C4_BackoffDelay ==
  \A c \in AllCalls :
    /\ \A n \in 1..Len(sleeps[c]) :
         /\ sleeps[c][n] = 1000 * PolicyDelay(klass, n)
         /\ klass # "UserAccessBase" => sleeps[c][n] = (IF n = 1 THEN 2000 ELSE 4000)
    /\ pc[c] = "Sleeping" =>
         /\ Len(sleeps[c]) = attempt[c]
         /\ timer[c] = sleeps[c][attempt[c]]

\* a call sleeps after its fourth failure, at the cap
C4_Witness ==
  \E c \in AllCalls :
    /\ klass = "BruceHandlerBase"
    /\ pc[c] = "Sleeping"
    /\ sleeps[c] = <<2000, 4000, 4000, 4000>>

\* C5: a call has at most one dispatch in flight, and a further dispatch of
\* the same call starts only from the backoff sleep that followed the
\* observed failure of the previous dispatch, when its timer fires.
C5_Sequential ==
  /\ [](\A c \in AllCalls :
          /\ inflight[c] <= 1
          /\ (inflight[c] = 1) <=> (pc[c] = "Attempting"))
  /\ [][\A c \in AllCalls :
          (dispatches'[c] # dispatches[c] /\ pc[c] \notin {"Idle", "Succeeded", "Failed"}) =>
            /\ pc[c] = "Sleeping"
            /\ timer[c] = 1000 * PolicyDelay(klass, attempt[c])
            /\ timer'[c] = 0
            /\ inflight[c] = 0
            /\ ~wire[c].ok /\ wire[c].error # Null
            /\ attempt[c] = dispatches[c]
            /\ dispatches'[c] = dispatches[c] + 1]_vars

\* the third dispatch of a putWithRetry call is in flight
C5_Witness ==
  \E c \in AllCalls :
    /\ helper[c] = "putWithRetry"
    /\ klass = "BruceHandlerBase"
    /\ pc[c] = "Attempting"
    /\ dispatches[c] = 3

\* C6: the error a Failed call surfaces is made from the error of its last
\* dispatch.
C6_LastErrorSurfaced ==
  \A c \in AllCalls :
    pc[c] = "Failed" =>
      /\ wire[c].error # Null
      /\ lastError[c] = wire[c].error
      /\ thrown[c] = Surface(klass, wire[c].error, url[c])
      /\ klass # "BruceHandlerBase" => thrown[c] = wire[c].error

\* a postWithRetry call failed with a 404 as its last answer
C6_Witness ==
  \E c \in AllCalls :
    /\ pc[c] = "Failed"
    /\ helper[c] = "postWithRetry"
    /\ wire[c].response.status = 404
    /\ thrown[c].message.status = 404

\* what a surfaced error carries, as a field of the error or in its message
CarriesUrl(e, u) == e.url = u \/ e.message.url = u

CarriesStatus(e, st) == e.response.status = st \/ e.message.status = st

CarriesBody(e, resp) == e.response.body = resp.body \/ e.message.body = resp.body

CarriesServer(e, resp) ==
  resp.server # "absent" /\ (e.response.server = resp.server \/ e.message.server = resp.server)

\* C7 as stated: every error surfaced on exhaustion carries the request URL
\* and, when a response was received, its status and its body or server
\* header, for every helper of every base class.
C7_Original ==
  \A c \in AllCalls :
    pc[c] = "Failed" =>
      /\ CarriesUrl(thrown[c], url[c])
      /\ wire[c].response # NoResponse =>
           /\ CarriesStatus(thrown[c], wire[c].response.status)
           /\ CarriesBody(thrown[c], wire[c].response) \/ CarriesServer(thrown[c], wire[c].response)

\* C7: when the last error is an AxiosError the surfaced error carries the
\* request URL and, when a response was received, its status (404 after a
\* transport that always answers 404).  DeviceAccessBase and UserAccessBase
\* rethrow the AxiosError with its response; BruceHandlerBase throws an Error
\* whose message holds the status, the URL, the server header or "Unknown
\* Server", and the body converted to a string ("[object Object]" for a JSON
\* object), or "No response received".  Any other last error is rethrown as
\* it is.
C7_ErrorContext ==
  \A c \in AllCalls :
    pc[c] = "Failed" =>
      LET e == wire[c].error
          r == wire[c].response
          t == thrown[c]
      IN  IF ~isAxiosError(e)
            THEN t = e
            ELSE /\ CarriesUrl(t, url[c])
                 /\ r # NoResponse => CarriesStatus(t, r.status)
                 /\ klass # "BruceHandlerBase" => (t = e /\ t.response = r)
                 /\ klass = "BruceHandlerBase" =>
                      /\ t.name = "Error"
                      /\ t.message.url = url[c]
                      /\ r = NoResponse => t.message.body = "No response received"
                      /\ r # NoResponse =>
                           /\ t.message.status = r.status
                           /\ t.message.server =
                                (IF r.server = "absent" THEN "Unknown Server" ELSE r.server)
                           /\ t.message.body =
                                (IF r.kind = "json" THEN "[object Object]" ELSE r.body)

\* a BruceHandlerBase call failed on a 404 and its error mentions 404 and the url
C7_Witness ==
  \E c \in AllCalls :
    /\ pc[c] = "Failed"
    /\ klass = "BruceHandlerBase"
    /\ wire[c].response.status = 404
    /\ thrown[c].message.status = 404
    /\ thrown[c].message.url = url[c]
    /\ url[c] = 2

\* C8: every rejected dispatch but the last is followed by the backoff sleep
\* delay(n) of its attempt number, whatever kind of failure it was: a network
\* error, a 404, a 500 or another exception; the last one ends the call.
C8_UniformRetry ==
  [][\A c \in AllCalls :
       (attempt'[c] = attempt[c] + 1) =>
         /\ ~wire'[c].ok
         /\ IF attempt'[c] < PolicyAttempts(klass)
              THEN /\ pc'[c] = "Sleeping"
                   /\ timer'[c] = 1000 * PolicyDelay(klass, attempt'[c])
                   /\ thrown'[c] = Null
              ELSE pc'[c] = "Failed"]_vars

\* a call sleeps before retrying a request that was answered 404
C8_Witness ==
  \E c \in AllCalls :
    /\ pc[c] = "Sleeping"
    /\ helper[c] = "putWithRetry"
    /\ wire[c].response.status = 404
    /\ attempt[c] = 2

\* C9 as stated: a 2xx response whose body is not decodable as JSON is never
\* returned to the caller as a successful result.
C9_DecodeFailureRetried ==
  \A c \in AllCalls : pc[c] = "Succeeded" => wire[c].response.kind = "json"

\* the attempt counter, sleep log, dispatch count and outcome of a call
CallState(c) ==
  <<pc[c], helper[c], url[c], attempt[c], lastError[c], timer[c], inflight[c],
    dispatches[c], sleeps[c], wire[c], result[c], thrown[c]>>

\* C10: calls on one instance are independent: a step of one call leaves the
\* other call's state alone, every call starts with attempt 0 and a fresh
\* budget, each call's dispatch count and delays follow from its own failures
\* only, and a sleeping call never disables the other call's progress.
C10_Independent ==
  /\ [](\A c \in AllCalls :
          /\ pc[c] \in {"Attempting", "Sleeping", "Succeeded"} =>
               /\ Len(sleeps[c]) = attempt[c]
               /\ dispatches[c] = attempt[c] + (IF pc[c] = "Sleeping" THEN 0 ELSE 1)
          /\ pc[c] = "Failed" =>
               /\ attempt[c] = PolicyAttempts(klass)
               /\ dispatches[c] = PolicyAttempts(klass)
               /\ Len(sleeps[c]) = PolicyAttempts(klass) - 1
          /\ \A n \in 1..Len(sleeps[c]) : sleeps[c][n] = 1000 * PolicyDelay(klass, n)
          /\ \A d \in AllCalls \ {c} :
               pc[d] = "Sleeping" =>
                 /\ pc[c] = "Attempting" => \A r \in ConcOk : ENABLED Resolve(c, r)
                 /\ pc[c] = "Attempting" =>
                      \A e \in ConcRejections(url[c]) : ENABLED Reject(c, e)
                 /\ pc[c] = "Sleeping" => ENABLED TimerFires(c)
                 /\ pc[c] \in {"Idle", "Succeeded", "Failed"} =>
                      ENABLED Invoke(c, "requestWithRetry", 1))
  /\ [][\A c \in AllCalls :
          /\ CallState(c)' # CallState(c) =>
               \A d \in AllCalls \ {c} : CallState(d)' = CallState(d)
          /\ (pc[c] \in {"Idle", "Succeeded", "Failed"} /\ pc'[c] = "Attempting") =>
               /\ attempt'[c] = 0
               /\ dispatches'[c] = 1
               /\ sleeps'[c] = << >>]_vars

\* one call sleeps after its third failure while the other call awaits its
\* first dispatch
C10_Witness ==
  /\ pc[1] = "Sleeping" /\ attempt[1] = 3
  /\ pc[2] = "Attempting" /\ attempt[2] = 0 /\ dispatches[2] = 1

\* ----------------------------------------- claims on composition and methods

\* C11: no operation after construction -- formatUrl, createHeaders, a retry
\* helper's step, a domain method, login -- changes the backend host, the access
\* token, the on-prem flag or the timezone of the instance (the retry constants
\* are `const` exports, definitions of this module, and cannot change).
C11_FieldsNeverChange == [][ctx' = ctx /\ klass' = klass]_vars

\* a domain method called with an on-prem override opposite to the instance's
\* flag has run to its end, a retry included
C11_Witness ==
  /\ call.op = "method"
  /\ call.args.onPrem = "true"
  /\ ~ctx.onPrem
  /\ dispatches[1] >= 2
  /\ outcome.kind = "returned"

\* an entry of a header map that holds a string
Defined(v) == v # NoEntry /\ v # undefined

\* C12: createHeaders(extraHeaders) returns a map whose Authorization is
\* "Bearer " + token when extraHeaders has no Authorization key and the caller's
\* value when extraHeaders supplies one, and in which every other entry the
\* caller supplied is present with the caller's value.
C12_CreateHeaders ==
  call.op = "createHeaders" =>
    LET e == call.args.extraHeaders
        h == built.headers
    IN /\ e["Authorization"] = NoEntry => h["Authorization"] = "Bearer " \o ctx.accessToken
       /\ Defined(e["Authorization"]) => h["Authorization"] = e["Authorization"]
       /\ \A k \in HeaderKeys \ {"Authorization"} : Defined(e[k]) => h[k] = e[k]

\* createHeaders was called with an Authorization and an origin of the caller
C12_Witness ==
  /\ call.op = "createHeaders"
  /\ call.args.extraHeaders["Authorization"] = "Basic abc"
  /\ call.args.extraHeaders["origin"] = "app"
  /\ built.headers["Authorization"] = "Basic abc"

\* C13 as stated: the map createHeaders returns has no entry whose value is
\* undefined, whatever the base class.
C13_NoUndefinedEntry ==
  call.op = "createHeaders" => \A k \in HeaderKeys : built.headers[k] # undefined

\* C14 as stated: every request that goes out, first attempt or retry, of a
\* domain method or of login, carries Authorization = "Bearer <token>" unless
\* the caller's extraHeaders have an Authorization key.
C14_Original ==
  \A i \in DOMAIN sent :
    call.args.extraHeaders["Authorization"] = NoEntry =>
      sent[i].headers["Authorization"] = Bearer(ctx.accessToken)

\* C14: every request a domain method of a connector sends, first attempt or
\* retry, carries Authorization = "Bearer <token>" when the caller's
\* extraHeaders have no Authorization key and the caller's value when they give
\* one; the request of login carries the caller's Authorization entry and none
\* when the caller gave none.
C14_AuthorizationOnRequests ==
  \A i \in DOMAIN sent :
    LET e == call.args.extraHeaders
        h == sent[i].headers
    IN /\ call.op = "method" /\ e["Authorization"] = NoEntry =>
            h["Authorization"] = Bearer(ctx.accessToken)
       /\ call.op = "method" /\ Defined(e["Authorization"]) =>
            h["Authorization"] = e["Authorization"]
       /\ call.op = "login" => h["Authorization"] = e["Authorization"]

\* a domain method called without an Authorization of its own is at its third
\* dispatch
C14_Witness ==
  /\ call.op = "method"
  /\ call.args.extraHeaders["Authorization"] = NoEntry
  /\ Len(sent) = 3
  /\ sent[3].headers["Authorization"] = Bearer(ctx.accessToken)

\* C15: formatUrl replaces {protocol} by "http" when the effective on-prem flag
\* is true and by "https" otherwise, and the host placeholder by the backend
\* host; the effective flag is the onPrem argument whenever one is given, an
\* explicit false included, and the flag of the instance only when it is
\* omitted.  With onPrem = false and host "api.example.com", the template
\* "{protocol}://{backend_url}/x/{id}" with id "42" gives
\* "https://api.example.com/x/42".
C15_FormatUrl ==
  /\ call.op = "formatUrl" =>
       LET t == call.template
           effective == IF call.args.onPrem = "omitted"
                          THEN ctx.onPrem
                          ELSE call.args.onPrem = "true"
       IN built.url =
            [i \in DOMAIN t |->
               IF t[i] = "{protocol}" THEN (IF effective THEN "http" ELSE "https")
               ELSE IF t[i] = HostPlaceholder(klass) THEN ctx.dataUrl
               ELSE t[i]]
  /\ \A k \in {"DeviceAccessBase", "UserAccessBase"}, tok \in AccessTokens, z \in Timezones :
       Replace(formatUrl(k, [dataUrl |-> "api.example.com", accessToken |-> tok,
                             onPrem |-> FALSE, tz |-> z],
                         ExampleTemplate, "omitted"),
               "{id}", <<"42">>)
         = <<"https", "://", "api.example.com", "/", "x", "/", "42">>

\* formatUrl was called with an explicit false on an instance constructed with
\* onPrem = true
C15_Witness ==
  /\ call.op = "formatUrl"
  /\ ctx.onPrem
  /\ call.args.onPrem = "false"
  /\ built.url[1] = "https"
  /\ built.url[3] = ctx.dataUrl

\* the placeholders of the templates
Placeholders ==
  {"{protocol}", "{backend_url}", "{data_url}"}
    \cup UNION {{m.subst[i][1] : i \in DOMAIN m.subst} : m \in Methods}

\* C16 as stated: a domain method whose template needs a value the caller did
\* not supply fails without dispatching anything, and no request goes out to a
\* url in which a placeholder is left.
C16_MalformedTemplate ==
  /\ call.op = "method" /\ HasId(MethodOf(call.name)) /\ call.args.id = Missing =>
       sent = << >> /\ outcome.kind = "thrown"
  /\ \A i \in DOMAIN sent : \A j \in DOMAIN sent[i].url : sent[i].url[j] \notin Placeholders

\* the number of tokens of str equal to tok
Occurrences(str, tok) == Cardinality({i \in DOMAIN str : str[i] = tok})

\* C17 as stated: a value the caller supplies for a path placeholder never
\* changes the number of path segments of the composed url and never adds a
\* query string to it.
C17_PathValuesEncoded ==
  call.op = "method" /\ call.args.id # Missing =>
    \A i \in DOMAIN sent :
      /\ Occurrences(sent[i].url, "/") = Occurrences(call.template, "/")
      /\ Occurrences(sent[i].url, "?") = 0

\* -------------------------------------------- claims on policy and helpers

\* C18 as stated: the helpers of every base class run under maxAttempts = 15,
\* baseDelay = 2 s, maxDelay = 4 s: after n failed dispatches a call has slept
\* min(2 * 2^(i-1), 4) seconds after the i-th of them, and it fails exactly
\* when the 15th dispatch has failed.
C18_Original ==
  \A c \in AllCalls :
    pc[c] # "Idle" =>
      LET n == attempt[c]
          delay(i) == IF 2 * (2 ^ (i - 1)) < 4 THEN 2 * (2 ^ (i - 1)) * 1000 ELSE 4000
      IN /\ (pc[c] = "Failed") <=> (n = 15)
         /\ dispatches[c] = IF pc[c] \in {"Attempting", "Succeeded"} THEN n + 1 ELSE n
         /\ sleeps[c] = [i \in 1..(IF n < 15 THEN n ELSE 14) |-> delay(i)]

\* C18: the helpers of DeviceAccessBase and BruceHandlerBase run under
\* maxAttempts = 15, baseDelay = 2 s, maxDelay = 4 s, the helper of
\* UserAccessBase under 5 attempts and a constant delay of 1 s; within a class,
\* the number of dispatches and the sequence of delays are a function of the
\* sequence of transport outcomes alone.
C18_PolicyPerClass ==
  \A c \in AllCalls :
    pc[c] # "Idle" =>
      LET n == attempt[c]
          max == IF klass = "UserAccessBase" THEN 5 ELSE 15
          delay(i) == IF klass = "UserAccessBase" THEN 1000
                      ELSE IF 2 * (2 ^ (i - 1)) < 4 THEN 2 * (2 ^ (i - 1)) * 1000
                      ELSE 4000
      IN /\ (pc[c] = "Failed") <=> (n = max)
         /\ dispatches[c] = IF pc[c] \in {"Attempting", "Succeeded"} THEN n + 1 ELSE n
         /\ sleeps[c] = [i \in 1..(IF n < max THEN n ELSE max - 1) |-> delay(i)]

\* a call on UserAccessBase has failed after its fifth dispatch and four
\* sleeps of one second
C18_Witness ==
  \E c \in AllCalls :
    /\ klass = "UserAccessBase"
    /\ pc[c] = "Failed"
    /\ dispatches[c] = 5
    /\ sleeps[c] = <<1000, 1000, 1000, 1000>>

\* C19: putWithRetry and postWithRetry behave as requestWithRetry of the same
\* class does: after the same transport outcomes a call has made the same
\* number of dispatches, slept the same delays in the same order, and ended,
\* if it has, with the same body returned or the same error surfaced.
C19_SameForEveryVerb ==
  \A c \in AllCalls :
    helper[c] \in {"putWithRetry", "postWithRetry"} =>
      LET n == attempt[c]
          ended == n >= MaxAttempts(klass)
      IN /\ (pc[c] = "Failed") <=> ended
         /\ dispatches[c] = IF pc[c] \in {"Attempting", "Succeeded"} THEN n + 1 ELSE n
         /\ Len(sleeps[c]) = IF ended THEN n - 1 ELSE n
         /\ \A i \in DOMAIN sleeps[c] : sleeps[c][i] = BackoffMs(klass, i)
         /\ pc[c] = "Succeeded" => result[c] = AxiosData(wire[c].response)
         /\ pc[c] = "Failed" => thrown[c] = Surface(klass, lastError[c], url[c])

\* a postWithRetry call on BruceHandlerBase has failed after all its attempts
C19_Witness ==
  \E c \in AllCalls :
    /\ klass = "BruceHandlerBase"
    /\ helper[c] = "postWithRetry"
    /\ pc[c] = "Failed"
    /\ Len(sleeps[c]) = 14
    /\ thrown[c].name = "Error"

\* C20 as stated: every domain method goes through a retry helper, so a domain
\* method whose first dispatch has failed has not yet given its caller null or
\* an error: it is still to dispatch again.
C20_EveryMethodRetries ==
  call.op = "method" /\ dispatches[1] = 1 /\ isAxiosError(wire[1].error) =>
    outcome.kind = "pending"

\* ------------------------------------------- claims on login and on errors

\* C21: a call of login makes exactly one POST dispatch, with no retry and no
\* sleep; it gives its caller the body of the response when the dispatch
\* succeeds and null when it fails in any way, and never an error.
C21_LoginSinglePost ==
  call.op = "login" =>
    /\ dispatches[1] = 1
    /\ helper[1] = "axios.post"
    /\ sleeps[1] = << >>
    /\ outcome.kind # "thrown"
    /\ wire[1].ok => outcome = Returned(AxiosData(wire[1].response))
    /\ wire[1].error.name # "null" => outcome.kind = "null"
    /\ inflight[1] = 0 => outcome.kind \in {"returned", "null"}

\* login has given null after its one dispatch got no response at all
C21_Witness ==
  /\ call.op = "login"
  /\ wire[1].error.name = "AxiosError"
  /\ wire[1].response = NoResponse
  /\ dispatches[1] = 1
  /\ outcome.kind = "null"

\* C22 as stated: a domain method of DeviceAccess or UserAccess never gives its
\* caller an error, whatever goes wrong during the call -- retries exhausted, a
\* single dispatch failed, a time that cannot be converted -- but null.
C22_NullOnAnyError ==
  call.op = "method" /\ klass \in {"DeviceAccessBase", "UserAccessBase"} =>
    /\ outcome.kind # "thrown"
    /\ pc[1] = "Failed" \/ TimeThrows(MethodOf(call.name), call.args) => outcome.kind = "null"

\* ------------------------------------------ claims on backoff and termination

RECURSIVE SumSeq(_)
SumSeq(q) == IF q = << >> THEN 0 ELSE Head(q) + SumSeq(Tail(q))

\* C23 as stated: with maxAttempts = 15, baseDelay = 2 s and maxDelay = 4 s a
\* call whose every attempt fails has spent about 58 seconds in backoff
\* sleeps: 58 s to within less than the shortest delay, 2 s.
C23_Original ==
  \A c \in AllCalls :
    klass # "UserAccessBase" /\ pc[c] = "Failed" =>
      /\ SumSeq(sleeps[c]) > 58000 - 2000
      /\ SumSeq(sleeps[c]) < 58000 + 2000

\* C23: with maxAttempts = 15, baseDelay = 2 s and maxDelay = 4 s a call whose
\* every attempt fails has spent 2 + 13 * 4 = 54 seconds in backoff sleeps.
C23_TotalBackoff ==
  \A c \in AllCalls :
    klass # "UserAccessBase" /\ pc[c] = "Failed" => SumSeq(sleeps[c]) = 54000

\* a requestWithRetry call under 15 / 2 s / 4 s has failed on every attempt
C23_Witness ==
  \E c \in AllCalls :
    /\ klass = "DeviceAccessBase"
    /\ helper[c] = "requestWithRetry"
    /\ pc[c] = "Failed"
    /\ dispatches[c] = 15

\* the dispatches of call c that have failed
FailedDispatches(c) ==
  dispatches[c] - inflight[c] - (IF pc[c] = "Succeeded" THEN 1 ELSE 0)

\* C24: no sleep follows the final failed attempt: the number of sleeps started
\* equals the number of failed dispatches, less one once the call is Failed; a
\* call that exhausts its retries has slept maxAttempts - 1 times and becomes
\* Failed in the step in which its last dispatch fails.
C24_NoSleepAfterLastFailure ==
  /\ [](\A c \in AllCalls :
          /\ Len(sleeps[c]) = FailedDispatches(c) - (IF pc[c] = "Failed" THEN 1 ELSE 0)
          /\ pc[c] = "Failed" =>
               /\ Len(sleeps[c]) = PolicyAttempts(klass) - 1
               /\ timer[c] = 0)
  /\ [][\A c \in AllCalls :
          (pc'[c] = "Failed" /\ pc[c] # "Failed") =>
            /\ pc[c] = "Attempting"
            /\ inflight[c] = 1 /\ inflight'[c] = 0
            /\ sleeps'[c] = sleeps[c]]_vars

\* a UserAccessBase call has failed after its fifth dispatch
C24_Witness ==
  \E c \in AllCalls :
    /\ klass = "UserAccessBase"
    /\ pc[c] = "Failed"
    /\ FailedDispatches(c) = 5
    /\ Len(sleeps[c]) = 4

\* C25: when every dispatch settles and every sleep ends, a call that was
\* started reaches Succeeded or Failed; a terminal call has nothing in flight
\* and no timer pending, and dispatches or sleeps again only as a new call.
C25_Terminates ==
  /\ \A c \in SeqCalls : (pc[c] \in {"Attempting", "Sleeping"}) ~> Terminal(c)
  /\ [](\A c \in SeqCalls : Terminal(c) => inflight[c] = 0 /\ timer[c] = 0)
  /\ [][\A c \in SeqCalls :
          Terminal(c) =>
            \/ dispatches'[c] = dispatches[c] /\ sleeps'[c] = sleeps[c] /\ pc'[c] = pc[c]
            \/ pc'[c] = "Attempting" /\ attempt'[c] = 0 /\ dispatches'[c] = 1
                 /\ sleeps'[c] = << >>]_vars

\* a call has ended Succeeded after thirteen failed dispatches
C25_Witness ==
  \E c \in SeqCalls : pc[c] = "Succeeded" /\ attempt[c] = 13 /\ Len(sleeps[c]) = 13

\* ------------------------------------------------- claims on substitution

RECURSIVE Flatten(_)
\* the concatenation of a sequence of strings
Flatten(q) == IF q = << >> THEN << >> ELSE Head(q) \o Flatten(Tail(q))

\* the template of method m with every placeholder replaced, all at once, by
\* the value supplied for it
Simultaneous(m, c, a) ==
  LET t == m.template
      protocol == IF EffectiveOnPrem(a.onPrem, c.onPrem) THEN HTTP ELSE HTTPS
      valueOf(tok) ==
        IF tok = "{protocol}" THEN <<protocol>>
        ELSE IF tok = HostPlaceholder(m.klass) THEN <<c.dataUrl>>
        ELSE IF \E i \in DOMAIN m.subst : m.subst[i][1] = tok
          THEN SubstValue(m.subst[CHOOSE i \in DOMAIN m.subst : m.subst[i][1] = tok][2],
                          a, m.encode)
        ELSE <<tok>>
  IN Flatten([i \in DOMAIN t |-> valueOf(t[i])])

\* C26 as stated: the url a domain method requests is its template with every
\* placeholder replaced by its own value, whatever the values are, the text of
\* another placeholder of the template included.
C26_SimultaneousSubstitution ==
  call.op = "method" =>
    \A i \in DOMAIN sent : sent[i].url = Simultaneous(MethodOf(call.name), ctx, call.args)

\* ------------------------------------------ claims on storage and messaging

\* C27 as stated: whenever create, read, update or delete has gone past its
\* `await this.connect()`, the collection handle it uses is initialised, under
\* every interleaving of operations and after an earlier failed connect.
C27_CollectionInitialised ==
  \A p \in MongoCalls :
    mongoOps[p].op \in MongoCrudOps /\ mongoOps[p].handle # "none" =>
      mongoOps[p].handle = "Collection"

\* C28 as stated: when two update calls on the same key that set different
\* fields have both returned, in any interleaving, the stored object has both
\* fields; an update on a missing or non-object value throws and leaves the
\* stored value as it was.
C28_UpdateMerges ==
  /\ [](\A p, q \in RedisCalls :
          /\ p # q
          /\ redisOps[p].pc = "returned" /\ redisOps[q].pc = "returned"
          /\ redisOps[p].key = redisOps[q].key
          /\ \A f \in Fields : redisOps[p].value.fields[f] = 0 \/ redisOps[q].value.fields[f] = 0
          => LET stored == get(store[redisOps[p].key])
             IN \A f \in Fields :
                  /\ redisOps[p].value.fields[f] # 0 => stored.fields[f] = redisOps[p].value.fields[f]
                  /\ redisOps[q].value.fields[f] # 0 => stored.fields[f] = redisOps[q].value.fields[f])
  /\ [][\A p \in RedisCalls :
          redisOps[p].pc = "get" /\ NotUpdatable(get(store[redisOps[p].key]))
            /\ redisOps'[p] # redisOps[p]
          => redisOps'[p].pc = "thrown" /\ store' = store]_vars

\* C29 as stated: once publishSingle, publishMultiple or subscribe has
\* completed, by returning or by throwing, the connection and the channel it
\* opened are closed, whichever step failed.
C29_EverythingClosed ==
  \A p \in RmqCalls :
    rmqOps[p].pc \in {"returned", "thrown"} => p \notin connections /\ p \notin channels

RECURSIVE MqttMatches(_, _)
\* MQTT wildcard matching on levels: '+' matches exactly one level, '#'
\* matches everything after it, any number of remaining levels
MqttMatches(filter, topic) ==
  IF filter = << >> THEN topic = << >>
  ELSE IF Head(filter) = "#" THEN TRUE
  ELSE IF topic = << >> THEN FALSE
  ELSE (Head(filter) = "+" \/ Head(filter) = Head(topic))
         /\ MqttMatches(Tail(filter), Tail(topic))

\* C30 as stated: the callbacks invoked for a received message are those of
\* the subscriptions whose filter matches its topic by MQTT wildcard matching;
\* a subscriber to 'a/#' is invoked for a message on 'a/b/c'.
C30_TopicMatching ==
  message # NoTopic =>
    \A topic \in listeners :
      topic \in invoked <=> MqttMatches(split(topic), split(message))

====
